---- MODULE Spec2Model ----
(***************************************************************************)
(* Frame multiplexing protocol of the QR data transfer repository:         *)
(* chunking, frame encoding/decoding (JSON), sequence validation,          *)
(* reconstruction and integrity verification, as implemented in            *)
(* tests/core/qr-test-architecture.js (QRTestArchitecture).                *)
(*                                                                         *)
(* JavaScript strings are sequences of symbols; every symbol is a TLA+     *)
(* string.  JavaScript values that travel through JSON are tagged records  *)
(* (Num, Str, Obj, Null, Undefined).                                       *)
(***************************************************************************)
EXTENDS Integers, Sequences, FiniteSets, TLC

(***************************************************************************)
(* Bounds of the model.                                                    *)
(***************************************************************************)
MaxLen == 3
MaxChunk == 2
MaxTime == 1
MaxBatch == 4
MaxTamperLen == 2
MaxTamperBatch == 3
MaxTamper == 2
MaxIterations == 4
MaxRawBatch == 2
MaxScans == 2
MaxTimers == 10
MaxClock == 2
MaxInput == 2
MaxSenderTimers == 4
MaxLoads == 2
MaxStarts == 2
MaxIntervals == 3
MaxCorruptLen == 1

\* The characters a text is made of: a letter and a character that
\* JSON.stringify has to escape inside a string literal.
Chars == {"a", "\""}

RECURSIVE SeqsUpTo(_, _)
SeqsUpTo(S, n) ==
  IF n = 0 THEN {<<>>}
  ELSE LET shorter == SeqsUpTo(S, n - 1)
       IN shorter \cup {Append(s, c) : s \in {t \in shorter : Len(t) = n - 1}, c \in S}

Texts == SeqsUpTo(Chars, MaxLen)
ChunkSizes == 1..MaxChunk
Timestamps == 1..MaxTime

Range(s) == {s[k] : k \in DOMAIN s}

RECURSIVE Flatten(_)
\* Array.prototype.join('') over an array of strings
Flatten(ss) == IF ss = <<>> THEN <<>> ELSE Head(ss) \o Flatten(Tail(ss))

(***************************************************************************)
(* JavaScript values                                                       *)
(***************************************************************************)
Undefined == [type |-> "undefined"]
Null == [type |-> "null"]
Num(n) == [type |-> "number", n |-> n]
Str(s) == [type |-> "string", s |-> s]
Obj(p) == [type |-> "object", props |-> p]
EmptyObject == Obj(<<>>)

\* property access o.k on a non-nullish value
Get(o, k) ==
  IF o.type = "object" /\ k \in DOMAIN o.props THEN o.props[k] ELSE Undefined

\* ToBoolean
Truthy(x) ==
  CASE x.type = "undefined" -> FALSE
    [] x.type = "null" -> FALSE
    [] x.type = "number" -> x.n # 0
    [] x.type = "string" -> x.s # <<>>
    [] OTHER -> TRUE

\* SameValueZero / === on the primitive values of the model
StrictEquals(x, y) ==
  /\ x.type = y.type
  /\ CASE x.type = "number" -> x.n = y.n
       [] x.type = "string" -> x.s = y.s
       [] x.type = "object" -> x.props = y.props
       [] OTHER -> TRUE

(***************************************************************************)
(* Numbers as text                                                         *)
(***************************************************************************)
Digits == <<"0", "1", "2", "3", "4", "5", "6", "7", "8", "9",
            "a", "b", "c", "d", "e", "f">>

DigitValue(c) == CHOOSE k \in 0..15 : Digits[k + 1] = c

RECURSIVE ToRadix(_, _)
\* Number.prototype.toString(radix) of a non-negative integer
ToRadix(n, radix) ==
  IF n < radix THEN <<Digits[n + 1]>>
  ELSE Append(ToRadix(n \div radix, radix), Digits[(n % radix) + 1])

\* String(n) / JSON.stringify(n) of an integer
NumberToString(n) == IF n < 0 THEN <<"-">> \o ToRadix(-n, 10) ELSE ToRadix(n, 10)

(***************************************************************************)
(* Chunker and checksum                                                    *)
(***************************************************************************)
Min(a, b) == IF a < b THEN a ELSE b

\* String.prototype.slice(from, to) with 0 <= from <= to, zero-based, to exclusive
Slice(text, from, to) == SubSeq(text, from + 1, Min(to, Len(text)))

RECURSIVE chunkLoopShortSlice(_, _, _, _)
\* a loop that slices one character short: text.slice(i, i + maxSize - 1)
chunkLoopShortSlice(text, maxSize, i, chunks) ==
  IF i < Len(text)
  THEN chunkLoopShortSlice(text, maxSize, i + maxSize,
                           Append(chunks, Slice(text, i, i + maxSize - 1)))
  ELSE chunks

RECURSIVE chunkLoopNoTail(_, _, _, _)
\* a loop that stops before a last, shorter chunk: i + maxSize <= text.length
chunkLoopNoTail(text, maxSize, i, chunks) ==
  IF i + maxSize <= Len(text)
  THEN chunkLoopNoTail(text, maxSize, i + maxSize,
                       Append(chunks, Slice(text, i, i + maxSize)))
  ELSE chunks

RECURSIVE chunkLoop(_, _, _, _)
chunkLoop(text, maxSize, i, chunks) ==
  IF i < Len(text)
  THEN chunkLoop(text, maxSize, i + maxSize, Append(chunks, Slice(text, i, i + maxSize)))
  ELSE chunks

chunkData(text, maxSize) == chunkLoop(text, maxSize, 0, <<>>)

\* String.prototype.charCodeAt for the symbols a text can hold
charCodeAt(c) ==
  CASE c = "\"" -> 34
    [] c = "\\" -> 92
    [] c = "-" -> 45
    [] c \in {"0", "1", "2", "3", "4", "5", "6", "7", "8", "9"} -> 48 + DigitValue(c)
    [] c \in {"a", "b", "c", "d", "e", "f"} -> 87 + DigitValue(c)
    [] OTHER -> 120

\* A 32-bit integer is kept as two 16-bit halves (its two's complement bit
\* pattern), so that every intermediate value stays small.
TwoTo16 == 65536
TwoTo15 == 32768

Int32Zero == [hi |-> 0, lo |-> 0]

\* hash = ((hash << 5) - hash) + char; hash = hash & hash
\* i.e. 31 * hash + char, wrapped to 32 bits
hashStep(hash, char) ==
  LET lo == 31 * hash.lo + char
      hi == 31 * hash.hi + (lo \div TwoTo16)
  IN [hi |-> hi % TwoTo16, lo |-> lo % TwoTo16]

RECURSIVE hashLoop(_, _, _)
hashLoop(text, i, hash) ==
  IF i < Len(text)
  THEN hashLoop(text, i + 1, hashStep(hash, charCodeAt(text[i + 1])))
  ELSE hash

\* Math.abs of a 32-bit integer, as an unsigned magnitude (2^31 for -2^31)
MathAbs(hash) ==
  IF hash.hi < TwoTo15 THEN hash
  ELSE IF hash.lo = 0 THEN [hi |-> (TwoTo16 - hash.hi) % TwoTo16, lo |-> 0]
  ELSE [hi |-> TwoTo16 - 1 - hash.hi, lo |-> TwoTo16 - hash.lo]

RECURSIVE PadZero(_, _)
PadZero(s, n) == IF Len(s) >= n THEN s ELSE PadZero(<<"0">> \o s, n)

\* Number.prototype.toString(16) of an unsigned magnitude
ToHex(m) ==
  IF m.hi = 0 THEN ToRadix(m.lo, 16)
  ELSE ToRadix(m.hi, 16) \o PadZero(ToRadix(m.lo, 16), 4)

calculateChecksum(text) == ToHex(MathAbs(hashLoop(text, 0, Int32Zero)))

(***************************************************************************)
(* JSON.stringify and JSON.parse on the values of the model.  The literal  *)
(* null and every property name are one symbol each; property names are    *)
(* written in the order in which encodeFrame and generateQRData create     *)
(* them.                                                                   *)
(***************************************************************************)
KeyOrder == <<"v", "i", "t", "d", "m",
              "totalChunks", "timestamp", "checksum", "encoding", "error">>

Escape(c) == IF c \in {"\"", "\\"} THEN <<"\\", c>> ELSE <<c>>

RECURSIVE EscapeAll(_)
EscapeAll(s) == IF s = <<>> THEN <<>> ELSE Escape(Head(s)) \o EscapeAll(Tail(s))

Quote(s) == <<"\"">> \o EscapeAll(s) \o <<"\"">>

RECURSIVE JSONstringify(_)
RECURSIVE stringifyMembers(_, _, _)
\* the members of object o from key number k on; first = no member written yet
stringifyMembers(o, k, first) ==
  IF k > Len(KeyOrder) THEN <<>>
  ELSE LET key == KeyOrder[k]
           val == Get(o, key)
       IN IF val.type = "undefined"
          THEN stringifyMembers(o, k + 1, first)
          ELSE (IF first THEN <<>> ELSE <<",">>)
               \o Quote(<<key>>) \o <<":">> \o JSONstringify(val)
               \o stringifyMembers(o, k + 1, FALSE)

JSONstringify(x) ==
  CASE x.type = "number" -> NumberToString(x.n)
    [] x.type = "string" -> Quote(x.s)
    [] x.type = "null" -> <<"null">>
    [] x.type = "object" -> <<"{">> \o stringifyMembers(x, 1, TRUE) \o <<"}">>

\* A parse step returns the value read and the position after it, or ok = FALSE
\* where JSON.parse throws a SyntaxError.
ParseFail == [ok |-> FALSE, value |-> Undefined, next |-> 0]
ParseOk(v, n) == [ok |-> TRUE, value |-> v, next |-> n]

DecimalDigits == {"0", "1", "2", "3", "4", "5", "6", "7", "8", "9"}

RECURSIVE parseDigits(_, _, _)
parseDigits(s, p, acc) ==
  IF p <= Len(s) /\ s[p] \in DecimalDigits
  THEN parseDigits(s, p + 1, acc * 10 + DigitValue(s[p]))
  ELSE ParseOk(Num(acc), p)

RECURSIVE digitRun(_, _)
\* the digits that stand at position p and after it
digitRun(s, p) ==
  IF p <= Len(s) /\ s[p] \in DecimalDigits THEN <<s[p]>> \o digitRun(s, p + 1) ELSE <<>>

\* An integer of more than MaxDigits digits is beyond the integers of the
\* model: it is kept as its sign and its decimal digits.
MaxDigits == 9
BigNum(neg, ds) == [type |-> "number", negative |-> neg, digits |-> ds]

\* an integer literal: no leading zero, at least one digit
parseNumber(s, p) ==
  LET neg == s[p] = "-"
      q == IF neg THEN p + 1 ELSE p
  IN IF q > Len(s) \/ s[q] \notin DecimalDigits THEN ParseFail
     ELSE IF s[q] # "0" /\ Len(digitRun(s, q)) > MaxDigits
     THEN ParseOk(BigNum(neg, digitRun(s, q)), q + Len(digitRun(s, q)))
     ELSE LET r == IF s[q] = "0" THEN ParseOk(Num(0), q + 1) ELSE parseDigits(s, q, 0)
          IN IF neg THEN ParseOk(Num(-r.value.n), r.next) ELSE r

RECURSIVE parseString(_, _, _)
\* the characters of a string literal after its opening quote
parseString(s, p, acc) ==
  IF p > Len(s) THEN ParseFail
  ELSE IF s[p] = "\"" THEN ParseOk(Str(acc), p + 1)
  ELSE IF s[p] = "\\"
       THEN IF p + 1 <= Len(s) /\ s[p + 1] \in {"\"", "\\"}
            THEN parseString(s, p + 2, Append(acc, s[p + 1]))
            ELSE ParseFail
  ELSE parseString(s, p + 1, Append(acc, s[p]))

\* the property a parsed key names
PropertyName(k) == IF Len(k) = 1 THEN k[1] ELSE "?"

RECURSIVE parseValue(_, _)
RECURSIVE parseMembers(_, _, _)
\* the members of an object literal from position p on; a later duplicate key wins
parseMembers(s, p, props) ==
  IF p > Len(s) \/ s[p] # "\"" THEN ParseFail
  ELSE LET key == parseString(s, p + 1, <<>>)
       IN IF ~key.ok \/ key.next > Len(s) \/ s[key.next] # ":" THEN ParseFail
          ELSE LET val == parseValue(s, key.next + 1)
                   more == (PropertyName(key.value.s) :> val.value) @@ props
               IN IF ~val.ok \/ val.next > Len(s) THEN ParseFail
                  ELSE IF s[val.next] = "}" THEN ParseOk(Obj(more), val.next + 1)
                  ELSE IF s[val.next] = "," THEN parseMembers(s, val.next + 1, more)
                  ELSE ParseFail

parseValue(s, p) ==
  IF p > Len(s) THEN ParseFail
  ELSE IF s[p] = "\"" THEN parseString(s, p + 1, <<>>)
  ELSE IF s[p] = "null" THEN ParseOk(Null, p + 1)
  ELSE IF s[p] = "-" \/ s[p] \in DecimalDigits THEN parseNumber(s, p)
  ELSE IF s[p] = "{"
       THEN IF p + 1 <= Len(s) /\ s[p + 1] = "}"
            THEN ParseOk(EmptyObject, p + 2)
            ELSE parseMembers(s, p + 1, <<>>)
  ELSE ParseFail

\* JSON.parse: ok = FALSE stands for the SyntaxError it throws
JSONparse(raw) ==
  LET r == parseValue(raw, 1)
  IN IF r.ok /\ r.next = Len(raw) + 1 THEN r ELSE ParseFail

(***************************************************************************)
(* Frame codec                                                             *)
(***************************************************************************)
\* the metadata written into every frame: m: metadata
encodeFrameMetadataEverywhere(chunk, index, total, metadata) ==
  JSONstringify(Obj([v |-> Num(1),
                     i |-> Num(index),
                     t |-> Num(total),
                     d |-> Str(chunk),
                     m |-> metadata]))

\* m: index === 0 ? metadata : undefined; JSON.stringify leaves out an
\* undefined property
encodeFrame(chunk, index, total, metadata) ==
  JSONstringify(Obj([v |-> Num(1),
                     i |-> Num(index),
                     t |-> Num(total),
                     d |-> Str(chunk),
                     m |-> IF index = 0 THEN metadata ELSE Undefined]))

InvalidFrameData == "Invalid frame data"

decodeFrame(raw) ==
  LET r == JSONparse(raw)
  IN IF r.ok THEN r.value ELSE Obj([error |-> Str(<<InvalidFrameData>>)])

(***************************************************************************)
(* Sequence validator, reconstructor, integrity verifier                   *)
(***************************************************************************)
NoFramesProvided == "No frames provided"
InconsistentTotal == "Inconsistent total frame count"

RECURSIVE joinNumbers(_)
\* missing.join(', ')
joinNumbers(ns) ==
  IF ns = <<>> THEN <<>>
  ELSE IF Len(ns) = 1 THEN NumberToString(ns[1])
  ELSE NumberToString(ns[1]) \o <<", ">> \o joinNumbers(Tail(ns))

\* `Missing frames: ${missing.join(', ')}`
MissingFrames(missing) == <<"Missing frames: ">> \o joinNumbers(missing)

\* a filter that looks for falsy frames only: frames.filter(f => !f)
invalidFramesFalsyOnly(frames) == SelectSeq(frames, LAMBDA f : ~Truthy(f))

\* frames.filter(f => !f || f.error)
invalidFrames(frames) ==
  SelectSeq(frames, LAMBDA f : ~Truthy(f) \/ Truthy(Get(f, "error")))

\* the last frame of every index is kept instead of the first
removeDuplicatesKeepLast(frames, seenIndices, uniqueFrames) ==
  LET last == SelectSeq([k \in DOMAIN frames |-> k],
                        LAMBDA k : \A j \in (k + 1)..Len(frames) :
                                     Get(frames[j], "i") # Get(frames[k], "i"))
  IN [j \in DOMAIN last |-> frames[last[j]]]

\* no deduplication: every frame is kept
removeDuplicatesKeepAll(frames, seenIndices, uniqueFrames) == frames

RECURSIVE removeDuplicates(_, _, _)
\* frames.forEach(frame => { if (!seenIndices.has(frame.i)) { ... } })
removeDuplicates(frames, seenIndices, uniqueFrames) ==
  IF frames = <<>> THEN uniqueFrames
  ELSE LET frame == Head(frames)
       IN IF Get(frame, "i") \in seenIndices
          THEN removeDuplicates(Tail(frames), seenIndices, uniqueFrames)
          ELSE removeDuplicates(Tail(frames), seenIndices \cup {Get(frame, "i")},
                                Append(uniqueFrames, frame))

\* ToLength of the length property given to Array.from
ToLength(x) == IF x.type = "number" /\ x.n > 0 THEN x.n ELSE 0

\* indices counted from one: Array.from({ length: t }, (_, i) => i + 1)
expectedIndicesFromOne(t) == [k \in 1..ToLength(t) |-> k]

\* Array.from({ length: t }, (_, i) => i)
expectedIndices(t) == [k \in 1..ToLength(t) |-> k - 1]

\* expectedIndices.filter(i => !frameIndices.includes(i)), as numbers
missingIndices(uniqueFrames) ==
  LET frameIndices == {Get(f, "i") : f \in Range(uniqueFrames)}
  IN SelectSeq(expectedIndices(Get(uniqueFrames[1], "t")),
               LAMBDA i : Num(i) \notin frameIndices)

\* [...new Set(uniqueFrames.map(f => f.t))]
totals(uniqueFrames) == {Get(f, "t") : f \in Range(uniqueFrames)}

\* 2^32 - 1, the greatest length of an array, in decimal digits
ArrayLengthLimit == <<"4", "2", "9", "4", "9", "6", "7", "2", "9", "5">>

RECURSIVE digitsGreater(_, _)
\* a > b for two numerals of the same length
digitsGreater(a, b) ==
  IF a = <<>> THEN FALSE
  ELSE IF Head(a) # Head(b) THEN DigitValue(Head(a)) > DigitValue(Head(b))
  ELSE digitsGreater(Tail(a), Tail(b))

\* Array.from({ length: t }) constructs new Array(len), which throws for a
\* length above 2^32 - 1
InvalidArrayLength(t) ==
  /\ t.type = "number"
  /\ "digits" \in DOMAIN t
  /\ ~t.negative
  /\ \/ Len(t.digits) > Len(ArrayLengthLimit)
     \/ Len(t.digits) = Len(ArrayLengthLimit) /\ digitsGreater(t.digits, ArrayLengthLimit)

RangeError == "RangeError: Invalid array length"

\* the record with the field threw stands for an exception that leaves the
\* function
validateFrameSequence(frames) ==
  IF frames = <<>>
  THEN [valid |-> FALSE, error |-> <<NoFramesProvided>>]
  ELSE IF Len(invalidFrames(frames)) > 0
  THEN [valid |-> FALSE, error |-> <<InvalidFrameData>>]
  ELSE IF InvalidArrayLength(Get(removeDuplicates(frames, {}, <<>>)[1], "t"))
  THEN [threw |-> RangeError]
  ELSE LET uniqueFrames == removeDuplicates(frames, {}, <<>>)
           missing == missingIndices(uniqueFrames)
       IN IF Len(missing) > 0
          THEN [valid |-> FALSE, error |-> MissingFrames(missing)]
          ELSE IF Cardinality(totals(uniqueFrames)) # 1
          THEN [valid |-> FALSE, error |-> <<InconsistentTotal>>]
          ELSE [valid |-> TRUE, uniqueFrames |-> uniqueFrames]

\* (a, b) => a.i - b.i; a NaN result counts as 0
compareIndex(a, b) ==
  LET x == Get(a, "i")
      y == Get(b, "i")
  IN IF x.type = "number" /\ y.type = "number" THEN x.n - y.n ELSE 0

RECURSIVE insertSorted(_, _)
\* f goes after every element that does not compare greater (stable)
insertSorted(sorted, f) ==
  IF sorted = <<>> THEN <<f>>
  ELSE IF compareIndex(sorted[Len(sorted)], f) > 0
  THEN Append(insertSorted(SubSeq(sorted, 1, Len(sorted) - 1), f), sorted[Len(sorted)])
  ELSE Append(sorted, f)

\* no sort: the frames stay in the order of arrival
sortByIndexKeepOrder(frames, sorted) == frames

RECURSIVE sortByIndex(_, _)
\* frames.sort((a, b) => a.i - b.i)
sortByIndex(frames, sorted) ==
  IF frames = <<>> THEN sorted
  ELSE sortByIndex(Tail(frames), insertSorted(sorted, Head(frames)))

\* what Array.prototype.join makes of one element
JoinedElement(x) ==
  CASE x.type = "string" -> x.s
    [] x.type = "number" -> NumberToString(x.n)
    [] x.type = "object" -> <<"[object Object]">>
    [] OTHER -> <<>>

reconstructData(frames) ==
  LET sortedFrames == sortByIndex(frames, <<>>)
      m == Get(sortedFrames[1], "m")
  IN [text |-> Flatten([k \in DOMAIN sortedFrames |-> JoinedElement(Get(sortedFrames[k], "d"))]),
      metadata |-> IF Truthy(m) THEN m ELSE EmptyObject]

NoChecksum == "No checksum to verify"
ChecksumVerified == "Checksum verified"
ChecksumMismatch == "Checksum mismatch"

verifyIntegrity(reconstructed) ==
  IF ~Truthy(Get(reconstructed.metadata, "checksum"))
  THEN [valid |-> TRUE, reason |-> NoChecksum]
  ELSE LET calculatedChecksum == calculateChecksum(reconstructed.text)
           valid == StrictEquals(Str(calculatedChecksum),
                                 Get(reconstructed.metadata, "checksum"))
       IN [valid |-> valid,
           reason |-> IF valid THEN ChecksumVerified ELSE ChecksumMismatch,
           expected |-> Get(reconstructed.metadata, "checksum"),
           actual |-> calculatedChecksum]

(***************************************************************************)
(* The pure logic environment: generateQRData and parseQRData              *)
(***************************************************************************)
DefaultChunkSize == 800

\* options.maxChunkSize || 800
configMaxChunkSize(option) == IF Truthy(option) THEN option.n ELSE DefaultChunkSize

\* no special case for the empty text: this.chunkData(text, config.maxChunkSize)
chunksOfChunkDataOnly(txt, maxChunkSize) == chunkData(txt, maxChunkSize)

\* text === '' ? [''] : this.chunkData(text, config.maxChunkSize)
chunksOf(txt, maxChunkSize) ==
  IF txt = <<>> THEN << <<>> >> ELSE chunkData(txt, maxChunkSize)

\* the checksum taken over the first chunk instead of the whole text
makeMetadataChecksumOfFirstChunk(txt, chunks, now) ==
  Obj([totalChunks |-> Num(Len(chunks)),
       timestamp |-> Num(now),
       checksum |-> Str(calculateChecksum(chunks[1])),
       encoding |-> Str(<<"utf-8">>)])

makeMetadata(txt, chunks, now) ==
  Obj([totalChunks |-> Num(Len(chunks)),
       timestamp |-> Num(now),
       checksum |-> Str(calculateChecksum(txt)),
       encoding |-> Str(<<"utf-8">>)])

\* now is the value of Date.now()
generateQRData(txt, option, now) ==
  LET chunks == chunksOf(txt, configMaxChunkSize(option))
      metadata == makeMetadata(txt, chunks, now)
  IN [index \in 1..Len(chunks) |->
        [frameNumber |-> index,
         totalFrames |-> Len(chunks),
         data |-> chunks[index],
         metadata |-> IF index - 1 = 0 THEN metadata ELSE Null,
         raw |-> encodeFrame(chunks[index], index - 1, Len(chunks), metadata)]]

\* parseQRData from the validation on
parseQRDataValidated(parsedFrames, validation) ==
  IF "threw" \in DOMAIN validation
  THEN [threw |-> validation.threw]
  ELSE IF ~validation.valid
  THEN [error |-> validation.error]
  ELSE LET reconstructed == reconstructData(validation.uniqueFrames)
       IN [data |-> reconstructed.text,
           metadata |-> reconstructed.metadata,
           integrity |-> verifyIntegrity(reconstructed)]

parseQRData(frameList) ==
  LET parsedFrames == [k \in DOMAIN frameList |-> decodeFrame(frameList[k].raw)]
  IN parseQRDataValidated(parsedFrames, validateFrameSequence(parsedFrames))

(***************************************************************************)
(* What the tests do to a generated frame before it is parsed: the raw     *)
(* string is parsed, one property is changed and the object is written     *)
(* back, or the raw string is replaced by text that is no JSON.            *)
(***************************************************************************)
\* Array.prototype.sort sorts the array it is called on and returns that
\* same array: what the argument of reconstructData holds after the call
argumentAfterReconstructData(frames) == sortByIndex(frames, <<>>)

\* const framesToUse = validation.uniqueFrames || parsedFrames: the array
\* that parseQRData hands to reconstructData, "none" where it returns before
framesToUseFor(validation) ==
  IF "threw" \in DOMAIN validation \/ ~validation.valid THEN "none"
  ELSE IF "uniqueFrames" \in DOMAIN validation THEN "uniqueFrames"
  ELSE "parsedFrames"

\* The arrays of a parseQRData call when it returns. frames.map and the
\* forEach of validateFrameSequence build new arrays; reconstructData sorts
\* the array it is handed.
arraysAfter(frameList, parsedFrames, validation) ==
  LET handed == framesToUseFor(validation)
      built == [frames |-> frameList,
                parsedFrames |-> parsedFrames,
                uniqueFrames |-> IF "uniqueFrames" \in DOMAIN validation
                                 THEN validation.uniqueFrames ELSE <<>>]
  IN IF handed = "none" THEN built
     ELSE [built EXCEPT ![handed] = argumentAfterReconstructData(built[handed])]

SetProp(o, k, x) == Obj((k :> x) @@ o.props)
RemoveProp(o, k) == Obj([j \in DOMAIN o.props \ {k} |-> o.props[j]])

TamperIndices == -1..MaxTamperLen
TamperTotals == 0..(MaxTamperLen + 1)

\* a payload of the same length with its first character changed; one more
\* character for the empty payload
alteredPayload(d) ==
  IF d = <<>> THEN <<"a">>
  ELSE <<IF d[1] = "a" THEN "\"" ELSE "a">> \o Tail(d)

OtherChecksums == {Str(calculateChecksum(<<>>)), Str(calculateChecksum(<<"a", "\"", "a">>))}

\* frame objects that differ from the parsed frame o in one property
rewrittenFrames(o) ==
  {SetProp(o, "i", Num(n)) : n \in TamperIndices}
  \cup {SetProp(o, "t", Num(n)) : n \in TamperTotals}
  \cup {SetProp(o, "d", Str(alteredPayload(Get(o, "d").s)))}
  \cup (IF Truthy(Get(o, "m"))
        THEN {RemoveProp(o, "m"), SetProp(o, "m", RemoveProp(Get(o, "m"), "checksum"))}
             \cup {SetProp(o, "m", SetProp(Get(o, "m"), "checksum", c)) : c \in OtherChecksums}
        ELSE {})

\* raw strings that JSON.parse rejects
brokenRaws(raw) == {SubSeq(raw, 1, Len(raw) - 1), <<"invalid-json-{">>}

tamperedRaws(raw) ==
  ({JSONstringify(o) : o \in rewrittenFrames(decodeFrame(raw))} \cup brokenRaws(raw)) \ {raw}

(***************************************************************************)
(* State: the sender's input and output, the frame list handed to          *)
(* parseQRData and its result.                                             *)
(***************************************************************************)
VARIABLES text, options, generated, frames, result, pc

\* the locals of a generateQRData call that is followed through its chunking
\* loop: config.maxChunkSize, and i and chunks of chunkData
VARIABLES config, i, chunks

chunkerVars == <<config, i, chunks>>

\* The receiver (QRDataReceiver): its fields, the elements of the page it
\* writes to, localStorage, the timers it has started and the clock.
\* lastCall names the handler that ran last and tells whether processQRCode
\* returned at once.
VARIABLES receivedFrames, totalFrames, lastScannedData, sessionId, scanCount,
          receivedData, resultsSection, progressSection, progressFill,
          progressText, videoFilter, statusContainer, storedDataSection,
          storedSessions, localStorage, timers, clock, lastCall

fieldVars == <<receivedFrames, totalFrames, lastScannedData, sessionId, scanCount>>

pageVars == <<receivedData, resultsSection, progressSection, progressFill,
              progressText, videoFilter, statusContainer, storedDataSection,
              storedSessions>>

receiverVars == <<fieldVars, pageVars, localStorage, timers, clock, lastCall>>

\* The arrays a parseQRData call works on, as they are when it returns: the
\* caller's list, the decoded frames and the deduplicated frames.
\* framesToUse names the array that was handed to reconstructData.
VARIABLES arrays, framesToUse

parserVars == <<arrays, framesToUse>>

\* The sender (QRDataSender): its fields, the elements of its page and the
\* timers it has started.
VARIABLES sender, mockElements, senderTimers

senderVars == <<sender, mockElements, senderTimers>>

\* The resource loader (ResourceLoader): its fields loadedResources and
\* loadingPromises, the loads it has started, the script elements of the
\* document, the globals that are defined, the loadResource calls that wait
\* at their await, and the last call with what it returned.
VARIABLES loadedResources, loadingPromises, loads, scripts, defined, waiting, called

loaderVars == <<loadedResources, loadingPromises, loads, scripts, defined, waiting, called>>

\* The camera of the receiver: the fields stream and scanInterval, the video
\* element (its stream, its 'loadedmetadata' listeners, its width), the
\* intervals setInterval has created (TRUE while active), getUserMedia
\* (calls made, calls pending, streams granted), the two camera buttons and
\* the camera method that was called last.
VARIABLES stream, scanInterval, video, intervals, mediaDevices, startCameraBtn,
          stopCameraBtn, cameraCall

cameraVars == <<stream, scanInterval, video, intervals, mediaDevices, startCameraBtn,
                stopCameraBtn, cameraCall>>

vars == <<text, options, generated, frames, result, pc, chunkerVars, receiverVars,
          parserVars, senderVars, loaderVars, cameraVars>>

NoResult == [pending |-> TRUE]

\* the sender after construction, on the page of the tests
NewSender ==
  [frames |-> <<>>, currentFrame |-> 0, playbackInterval |-> Null, isPlaying |-> FALSE]

NewElements ==
  [textInput |-> <<>>,
   playBtn |-> [disabled |-> TRUE],
   pauseBtn |-> [disabled |-> TRUE],
   stopBtn |-> [disabled |-> TRUE],
   qrDisplay |-> [innerHTML |-> <<>>, children |-> <<>>],
   statusContainer |-> <<>>,
   progressSection |-> "none",
   progressFill |-> "0%",
   progressText |-> <<>>]

NoArrays == [frames |-> <<>>, parsedFrames |-> <<>>, uniqueFrames |-> <<>>]

Init ==
  /\ text = <<>>
  /\ options = Undefined
  /\ generated = <<>>
  /\ frames = <<>>
  /\ result = NoResult
  /\ pc = "idle"
  /\ config = Undefined
  /\ i = Undefined
  /\ chunks = <<>>
  /\ receivedFrames = <<>>
  /\ totalFrames = 0
  /\ lastScannedData = Null
  /\ sessionId = Null
  /\ scanCount = 0
  /\ receivedData = <<>>
  /\ resultsSection = "none"
  /\ progressSection = "none"
  /\ progressFill = "0%"
  /\ progressText = <<>>
  /\ videoFilter = "none"
  /\ statusContainer = <<>>
  /\ storedDataSection = "none"
  /\ storedSessions = <<>>
  /\ localStorage = <<>>
  /\ timers = <<>>
  /\ clock = 1
  /\ lastCall = [op |-> "constructor", ignored |-> FALSE]
  /\ arrays = NoArrays
  /\ framesToUse = "none"
  /\ sender = NewSender
  /\ mockElements = NewElements
  /\ senderTimers = <<>>
  /\ loadedResources = {}
  /\ loadingPromises = <<>>
  /\ loads = <<>>
  /\ scripts = <<>>
  /\ defined = {}
  /\ waiting = {}
  /\ called = [name |-> "", returned |-> "none", load |-> 0]
  /\ stream = Null
  /\ scanInterval = Null
  /\ video = [srcObject |-> Null, listeners |-> 0, videoWidth |-> 0]
  /\ intervals = <<>>
  /\ mediaDevices = [requested |-> 0, pending |-> 0, granted |-> 0]
  /\ startCameraBtn = [disabled |-> FALSE]
  /\ stopCameraBtn = [disabled |-> TRUE]
  /\ cameraCall = "none"

\* all sequences over S of length at most n
RECURSIVE ListsUpTo(_, _)
ListsUpTo(S, n) ==
  IF n = 0 THEN {<<>>}
  ELSE LET shorter == ListsUpTo(S, n - 1)
       IN shorter \cup {Append(l, x) : l \in {m \in shorter : Len(m) = n - 1}, x \in S}

\* what the caller may pass as options.maxChunkSize
ChunkSizeOptions == {Undefined} \cup {Num(n) : n \in ChunkSizes}

generate(txt, option, now) ==
  /\ pc = "idle"
  /\ text' = txt
  /\ options' = option
  /\ generated' = generateQRData(txt, option, now)
  /\ pc' = "generated"
  /\ UNCHANGED <<cameraVars, loaderVars, senderVars, parserVars, frames, result, chunkerVars, receiverVars>>

parse(batch) ==
  /\ pc = "generated"
  /\ frames' = batch
  /\ \E parsedFrames \in {[k \in DOMAIN batch |-> decodeFrame(batch[k].raw)]} :
       \E validation \in {validateFrameSequence(parsedFrames)} :
         /\ result' = parseQRDataValidated(parsedFrames, validation)
         /\ arrays' = arraysAfter(batch, parsedFrames, validation)
         /\ framesToUse' = framesToUseFor(validation)
  /\ pc' = "parsed"
  /\ UNCHANGED <<cameraVars, loaderVars, senderVars, text, options, generated, chunkerVars, receiverVars>>

\* generateQRData(text, { maxChunkSize })
Generate ==
  /\ pc = "idle"
  /\ \E txt \in Texts, option \in ChunkSizeOptions, now \in Timestamps :
       generate(txt, option, now)

\* parseQRData on any list of generated frames: reordered, repeated, incomplete
CleanBatches == ListsUpTo(Range(generated), MaxBatch)

Parse ==
  /\ pc = "generated"
  /\ \E batch \in CleanBatches : parse(batch)

Next == Generate \/ Parse

Spec == Init /\ [][Next]_vars

\* the same with frames that were tampered with on the way
GenerateShort ==
  /\ pc = "idle"
  /\ \E txt \in SeqsUpTo(Chars, MaxTamperLen), option \in ChunkSizeOptions, now \in Timestamps :
       generate(txt, option, now)

tamperedFrames ==
  UNION {{[f EXCEPT !.raw = r] : r \in tamperedRaws(f.raw)} : f \in Range(generated)}

TamperedBatches ==
  {b \in ListsUpTo(Range(generated) \cup tamperedFrames, MaxTamperBatch) :
     Cardinality({k \in DOMAIN b : b[k] \notin Range(generated)}) <= MaxTamper}

ParseTampered ==
  /\ pc = "generated"
  /\ \E batch \in TamperedBatches : parse(batch)

NextTamper == GenerateShort \/ ParseTampered

SpecTamper == Init /\ [][NextTamper]_vars

(***************************************************************************)
(* generateQRData followed through the loop of chunkData, for every value  *)
(* a caller can pass as options.maxChunkSize.                              *)
(***************************************************************************)
Max(a, b) == IF a > b THEN a ELSE b

\* ToNumber of a number or a string; nan where the string is no numeral
ToNumber(x) ==
  IF x.type = "number" THEN [nan |-> FALSE, n |-> x.n]
  ELSE IF x.type = "string" /\ x.s = <<>> THEN [nan |-> FALSE, n |-> 0]
  ELSE IF x.type = "string" /\ \A k \in DOMAIN x.s : x.s[k] \in DecimalDigits
       THEN [nan |-> FALSE, n |-> parseDigits(x.s, 1, 0).value.n]
  ELSE [nan |-> TRUE, n |-> 0]

\* ToString of a number or a string (String(x))
ToStringOf(x) == IF x.type = "number" THEN NumberToString(x.n) ELSE x.s

\* x + y: addition of two numbers, concatenation as soon as one is a string
Plus(x, y) ==
  IF x.type = "number" /\ y.type = "number" THEN Num(x.n + y.n)
  ELSE Str(ToStringOf(x) \o ToStringOf(y))

\* x < n for a number n: false where x converts to NaN
LessThan(x, n) == LET a == ToNumber(x) IN ~a.nan /\ a.n < n

\* ToIntegerOrInfinity: NaN becomes 0
ToIntegerOrInfinity(x) == LET a == ToNumber(x) IN IF a.nan THEN 0 ELSE a.n

\* String.prototype.slice(start, end) for any start and end: a negative
\* position counts from the end of the string
StringSlice(str, start, end) ==
  LET len == Len(str)
      relativeStart == ToIntegerOrInfinity(start)
      relativeEnd == ToIntegerOrInfinity(end)
      from == IF relativeStart < 0 THEN Max(len + relativeStart, 0)
              ELSE Min(relativeStart, len)
      to == IF relativeEnd < 0 THEN Max(len + relativeEnd, 0)
            ELSE Min(relativeEnd, len)
  IN IF from >= to THEN <<>> ELSE SubSeq(str, from + 1, to)

\* what a caller can pass as options.maxChunkSize: nothing, null, zero, a
\* negative number, strings, and positive integers
MaxChunkSizeValues ==
  {Undefined, Null, Num(0), Num(-1), Str(<<>>), Str(<<"a">>), Str(<<"2">>),
   Num(DefaultChunkSize)} \cup {Num(n) : n \in ChunkSizes}

\* chunks.map((chunk, index) => ({ ... }))
mapChunks(txt, chunkList, now) ==
  LET metadata == makeMetadata(txt, chunkList, now)
  IN [index \in 1..Len(chunkList) |->
        [frameNumber |-> index,
         totalFrames |-> Len(chunkList),
         data |-> chunkList[index],
         metadata |-> IF index - 1 = 0 THEN metadata ELSE Null,
         raw |-> encodeFrame(chunkList[index], index - 1, Len(chunkList), metadata)]]

\* generateQRData up to the call of chunkData: config.maxChunkSize is
\* options.maxChunkSize || 800, the empty text skips the chunker
callGenerateQRData(txt, option) ==
  /\ pc = "idle"
  /\ text' = txt
  /\ options' = option
  /\ config' = [maxChunkSize |-> IF Truthy(option) THEN option ELSE Num(DefaultChunkSize)]
  /\ IF txt = <<>>
     THEN chunks' = << <<>> >> /\ i' = Undefined /\ pc' = "chunked"
     ELSE chunks' = <<>> /\ i' = Num(0) /\ pc' = "chunking"
  /\ UNCHANGED <<cameraVars, loaderVars, senderVars, parserVars, generated, frames, result, receiverVars>>

CallGenerateQRData ==
  /\ pc = "idle"
  /\ \E txt \in Texts, option \in MaxChunkSizeValues : callGenerateQRData(txt, option)

\* one iteration of for (let i = 0; i < text.length; i += maxSize); the
\* loop is followed for MaxIterations iterations
chunkDataIteration ==
  /\ pc = "chunking"
  /\ LessThan(i, Len(text))
  /\ Len(chunks) < MaxIterations
  /\ chunks' = Append(chunks, StringSlice(text, i, Plus(i, config.maxChunkSize)))
  /\ i' = Plus(i, config.maxChunkSize)
  /\ UNCHANGED <<cameraVars, loaderVars, senderVars, parserVars, text, options, generated, frames, result, pc, config, receiverVars>>

\* the loop condition fails: return chunks
chunkDataReturn ==
  /\ pc = "chunking"
  /\ ~LessThan(i, Len(text))
  /\ pc' = "chunked"
  /\ UNCHANGED <<cameraVars, loaderVars, senderVars, parserVars, text, options, generated, frames, result, chunkerVars, receiverVars>>

\* metadata and frames of the chunks, lines 32-47
returnFrames ==
  /\ pc = "chunked"
  /\ \E now \in Timestamps : generated' = mapChunks(text, chunks, now)
  /\ pc' = "generated"
  /\ UNCHANGED <<cameraVars, loaderVars, senderVars, parserVars, text, options, frames, result, chunkerVars, receiverVars>>

NextChunker ==
  CallGenerateQRData \/ chunkDataIteration \/ chunkDataReturn \/ returnFrames

SpecChunker == Init /\ [][NextChunker]_vars

(***************************************************************************)
(* parseQRData on raw strings of any kind                                  *)
(***************************************************************************)
\* the digits of 2^32
TwoTo32Digits == <<"4", "2", "9", "4", "9", "6", "7", "2", "9", "6">>

RawIndices == {-1, 0, 1}
RawTotals == {-1, 0, 1, 2}

\* the string of a frame {v: 1, i: 0, t: 4294967296, d: 'a'}
hugeTotalRaw ==
  <<"{", "\"", "v", "\"", ":", "1", ",", "\"", "i", "\"", ":", "0", ",",
    "\"", "t", "\"", ":">> \o TwoTo32Digits \o
  <<",", "\"", "d", "\"", ":", "\"", "a", "\"", "}">>

\* strings that do not parse, that parse to null, a number, a string, an
\* object without the fields of a frame, and frames with any index and total
RawStrings ==
  {<<>>, <<"{">>, <<"null">>, <<"1">>, Quote(<<"a">>),
   JSONstringify(EmptyObject), JSONstringify(Obj([d |-> Str(<<"a">>)])),
   hugeTotalRaw}
  \cup {JSONstringify(Obj([v |-> Num(1), i |-> Num(index), t |-> Num(total), d |-> Str(<<"a">>)])) :
          index \in RawIndices, total \in RawTotals}

RawBatches == ListsUpTo({[raw |-> r] : r \in RawStrings}, MaxRawBatch)

parseRaw(batch) ==
  /\ pc = "idle"
  /\ frames' = batch
  /\ \E parsedFrames \in {[k \in DOMAIN batch |-> decodeFrame(batch[k].raw)]} :
       \E validation \in {validateFrameSequence(parsedFrames)} :
         /\ result' = parseQRDataValidated(parsedFrames, validation)
         /\ arrays' = arraysAfter(batch, parsedFrames, validation)
         /\ framesToUse' = framesToUseFor(validation)
  /\ pc' = "parsed"
  /\ UNCHANGED <<cameraVars, loaderVars, senderVars, text, options, generated, chunkerVars, receiverVars>>

ParseRaw ==
  /\ pc = "idle"
  /\ \E batch \in RawBatches : parseRaw(batch)

NextRaw == ParseRaw

SpecRaw == Init /\ [][NextRaw]_vars

(***************************************************************************)
(* The receiver: QRDataReceiver                                            *)
(***************************************************************************)
\* the delays of the timers, in milliseconds
FlashDelay == 200
RescanDelay == 1000
StatusDelay == 5000

\* the texts the page shows, in English
QRDetected(count) == <<"QR code detected (scan ">> \o NumberToString(count) \o <<")">>
DataReceived == <<"Data received">>
AutoSaved == <<"Data saved to local storage">>
SessionReset == <<"Session reset">>
ReadyToScan == <<"Ready to scan">>
TransferComplete == <<"Transfer complete">>

\* `<div class="status ${type}">${message}</div>`
statusHTML(message, type) ==
  <<"<div class=\"status ", type, "\">">> \o message \o <<"</div>">>

\* String.prototype.includes
includes(str, part) ==
  \E k \in 0..(Len(str) - Len(part)) : SubSeq(str, k + 1, k + Len(part)) = part

\* a pending setTimeout: its delay, what its callback does, and the message
\* a status callback looks for
Timer(delay, callback, message) ==
  [delay |-> delay, callback |-> callback, message |-> message]

\* showStatus(message, type) on the status container and the timers of page:
\* every status but an error starts a timer that hides it
showStatus(page, message, type) ==
  [statusContainer |-> statusHTML(message, type),
   timers |-> IF type # "error"
              THEN Append(page.timers, Timer(StatusDelay, "hideStatus", message))
              ELSE page.timers]

\* 'session_' + Date.now()
sessionKey(now) == <<"session_">> \o NumberToString(now)

\* the session autoSaveData stores
sessionData(data, now) ==
  [id |-> sessionKey(now), timestamp |-> now, type |-> "text",
   data |-> data, size |-> Len(data)]

\* localStorage.setItem(key, value)
setItem(storage, key, value) ==
  [k \in DOMAIN storage \cup {key} |-> IF k = key THEN value ELSE storage[k]]

RECURSIVE newestFirst(_)
\* sessions.sort((a, b) => new Date(b.timestamp) - new Date(a.timestamp))
newestFirst(sessions) ==
  IF sessions = {} THEN <<>>
  ELSE LET newest == CHOOSE x \in sessions : \A y \in sessions : y.timestamp <= x.timestamp
       IN <<newest>> \o newestFirst(sessions \ {newest})

\* loadStoredSessions: the sessions of localStorage as the page lists them
listedSessions(storage) == newestFirst({storage[k] : k \in DOMAIN storage})

\* the payloads the camera can show: the two frames of a transmission,
\* a frame of a transmission of three, a transmission of one frame
TwoFrames == generateQRData(<<"a", "a">>, Num(1), 1)
ThreeFrames == generateQRData(<<"a", "a", "a">>, Num(1), 1)
OneFrame == generateQRData(<<"a">>, Undefined, 1)
ScanPayloads == {TwoFrames[1].raw, TwoFrames[2].raw, ThreeFrames[2].raw, OneFrame[1].raw}

\* processQRCode after its early return: the scan is counted, shown, saved
\* by autoSaveData and listed by loadStoredSessions, and five timers start
processScanned(qrData, now) ==
  LET detected == showStatus([statusContainer |-> statusContainer, timers |-> timers],
                             QRDetected(scanCount + 1), "info")
      flash == [detected EXCEPT !.timers = Append(@, Timer(FlashDelay, "filterNone", <<>>))]
      received == showStatus(flash, DataReceived, "info")
      saved == showStatus(received, AutoSaved, "info")
  IN /\ scanCount < MaxScans
     /\ Len(timers) + 5 <= MaxTimers
     /\ lastScannedData' = Str(qrData)
     /\ scanCount' = scanCount + 1
     /\ receivedData' = qrData
     /\ resultsSection' = "block"
     /\ progressFill' = "100%"
     /\ progressText' = TransferComplete
     /\ videoFilter' = "brightness(1.2)"
     /\ localStorage' = setItem(localStorage, sessionKey(now), sessionData(qrData, now))
     /\ storedSessions' = listedSessions(localStorage')
     /\ storedDataSection' = "block"
     /\ statusContainer' = saved.statusContainer
     /\ timers' = Append(saved.timers, Timer(RescanDelay, "clearLastScannedData", <<>>))
     /\ clock' = now
     /\ lastCall' = [op |-> "processQRCode", ignored |-> FALSE]
     /\ UNCHANGED <<receivedFrames, totalFrames, sessionId, progressSection>>

\* processQRCode that has no early return for a repeated payload
processQRCodeNoEarlyReturn(qrData, now) == processScanned(qrData, now)

\* processQRCode(qrData) at the time now
processQRCode(qrData, now) ==
  IF StrictEquals(Str(qrData), lastScannedData)
  THEN /\ lastCall' = [op |-> "processQRCode", ignored |-> TRUE]
       /\ UNCHANGED <<fieldVars, pageVars, localStorage, timers, clock>>
  ELSE processScanned(qrData, now)

\* the camera shows a payload: scanFrame calls processQRCode(code.data)
ProcessQRCode ==
  /\ pc = "idle"
  /\ \E qrData \in ScanPayloads, now \in clock..MaxClock : processQRCode(qrData, now)
  /\ UNCHANGED <<cameraVars, loaderVars, senderVars, parserVars, text, options, generated, frames, result, pc, chunkerVars>>

\* resetSession that leaves the scan counter as it is
resetSessionKeepScanCount ==
  LET reset == showStatus([statusContainer |-> statusContainer, timers |-> timers],
                          SessionReset, "info")
  IN /\ Len(timers) < MaxTimers
     /\ receivedFrames' = <<>>
     /\ totalFrames' = 0
     /\ lastScannedData' = Null
     /\ sessionId' = Null
     /\ receivedData' = <<>>
     /\ resultsSection' = "none"
     /\ progressSection' = "none"
     /\ statusContainer' = reset.statusContainer
     /\ timers' = reset.timers
     /\ lastCall' = [op |-> "resetSession", ignored |-> FALSE]
     /\ UNCHANGED <<scanCount, progressFill, progressText, videoFilter, storedDataSection,
                    storedSessions, localStorage, clock>>

resetSession ==
  LET reset == showStatus([statusContainer |-> statusContainer, timers |-> timers],
                          SessionReset, "info")
  IN /\ Len(timers) < MaxTimers
     /\ receivedFrames' = <<>>
     /\ totalFrames' = 0
     /\ lastScannedData' = Null
     /\ sessionId' = Null
     /\ scanCount' = 0
     /\ receivedData' = <<>>
     /\ resultsSection' = "none"
     /\ progressSection' = "none"
     /\ statusContainer' = reset.statusContainer
     /\ timers' = reset.timers
     /\ lastCall' = [op |-> "resetSession", ignored |-> FALSE]
     /\ UNCHANGED <<progressFill, progressText, videoFilter, storedDataSection,
                    storedSessions, localStorage, clock>>

\* a click on the reset button
ResetSession ==
  /\ pc = "idle"
  /\ resetSession
  /\ UNCHANGED <<cameraVars, loaderVars, senderVars, parserVars, text, options, generated, frames, result, pc, chunkerVars>>

\* a timer is due before every timer that was started after it with the same
\* or a longer delay
canFire(k) == \A j \in 1..(k - 1) : timers[j].delay > timers[k].delay

withoutTimer(k) == SubSeq(timers, 1, k - 1) \o SubSeq(timers, k + 1, Len(timers))

\* setTimeout(() => { this.lastScannedData = null; }, 1000)
ClearLastScannedData ==
  /\ pc = "idle"
  /\ \E k \in DOMAIN timers :
       /\ canFire(k)
       /\ timers[k].callback = "clearLastScannedData"
       /\ timers' = withoutTimer(k)
  /\ lastScannedData' = Null
  /\ UNCHANGED <<cameraVars, loaderVars, senderVars, parserVars, text, options, generated, frames, result, pc, chunkerVars,
                 receivedFrames, totalFrames, sessionId, scanCount, pageVars,
                 localStorage, clock, lastCall>>

\* setTimeout(() => { this.video.style.filter = 'none'; }, 200)
FilterNone ==
  /\ pc = "idle"
  /\ \E k \in DOMAIN timers :
       /\ canFire(k)
       /\ timers[k].callback = "filterNone"
       /\ timers' = withoutTimer(k)
  /\ videoFilter' = "none"
  /\ UNCHANGED <<cameraVars, loaderVars, senderVars, parserVars, text, options, generated, frames, result, pc, chunkerVars,
                 fieldVars, receivedData, resultsSection, progressSection,
                 progressFill, progressText, statusContainer, storedDataSection,
                 storedSessions, localStorage, clock, lastCall>>

\* the timer of showStatus: a status that still shows the message gives way
\* to 'Ready to scan'
HideStatus ==
  /\ pc = "idle"
  /\ \E k \in DOMAIN timers :
       /\ canFire(k)
       /\ timers[k].callback = "hideStatus"
       /\ timers' = withoutTimer(k)
       /\ statusContainer' = IF includes(statusContainer, timers[k].message)
                             THEN statusHTML(ReadyToScan, "info")
                             ELSE statusContainer
  /\ UNCHANGED <<cameraVars, loaderVars, senderVars, parserVars, text, options, generated, frames, result, pc, chunkerVars,
                 fieldVars, receivedData, resultsSection, progressSection,
                 progressFill, progressText, videoFilter, storedDataSection,
                 storedSessions, localStorage, clock, lastCall>>

NextReceiver ==
  ProcessQRCode \/ ResetSession \/ ClearLastScannedData \/ FilterNone \/ HideStatus

SpecReceiver == Init /\ [][NextReceiver]_vars

(***************************************************************************)
(* The sender: QRDataSender.  A state st of the sender is its fields       *)
(* (sender), the elements of its page (el) and its pending timers.         *)
(***************************************************************************)
\* the texts the sender's page shows, in English
EnterText == <<"Please enter the text to transmit">>
Generating == <<"Generating QR code...">>
GeneratedOk(n) == <<"QR code generated (">> \o NumberToString(n) \o <<" characters)">>
DisplayError(message) == <<"Error displaying QR code: ", message>>
NothingToPlay == <<"No QR code to play, generate one first">>
PlayingSingle == <<"Playing QR code (phase 1: single frame)">>
PlaybackPaused == <<"Playback paused">>
PlaybackStopped == <<"Playback stopped">>
AllCleared == <<"All data cleared">>
Ready == <<"Ready">>
StoppedPlaceholder == <<"<div class=\"qr-placeholder\">", "Playback stopped", "</div>">>
EmptyPlaceholder == <<"<div class=\"qr-placeholder\">", "QR code will be shown here", "</div>">>
FrameOf(current, total) ==
  <<"Frame ">> \o NumberToString(current) \o <<" / ">> \o NumberToString(total)

\* String.prototype.trim on texts whose only white space is the blank
RECURSIVE trimStart(_)
trimStart(s) == IF s # <<>> /\ Head(s) = " " THEN trimStart(Tail(s)) ELSE s
RECURSIVE trimEnd(_)
trimEnd(s) ==
  IF s # <<>> /\ s[Len(s)] = " " THEN trimEnd(SubSeq(s, 1, Len(s) - 1)) ELSE s
trim(s) == trimEnd(trimStart(s))

\* the longest text the QRCode library of the tests takes
QRTextLimit == 4296
TextRequired == "Text is required for QR code generation"
TextTooLong == "Text too long for QR code"

\* new QRCode(element, options): makeCode throws for an empty text and for
\* a text above the limit; thrown is the message, "" where nothing is thrown
QRCodeThrown(data) ==
  IF data = <<>> THEN TextRequired
  ELSE IF Len(data) > QRTextLimit THEN TextTooLong
  ELSE ""

\* this.showStatus(message, type) of the sender
senderShowStatus(st, message, type) ==
  LET shown == showStatus(st, message, type)
  IN [st EXCEPT !.el.statusContainer = shown.statusContainer,
                !.timers = shown.timers]

\* updateProgress(current, total), for a current that total divides
updateProgress(st, current, total) ==
  IF total > 0
  THEN [st EXCEPT !.el.progressFill = NumberToString((current * 100) \div total) \o <<"%">>,
                  !.el.progressText = FrameOf(current, total)]
  ELSE st

\* displayQRCode(data, frameIndex): the display is cleared, the QR code is
\* put into it and the progress is updated; what the library throws is
\* caught and shown
displayQRCode(st, data, frameIndex) ==
  LET cleared == [st EXCEPT !.el.qrDisplay = [innerHTML |-> <<>>, children |-> <<>>]]
  IN IF QRCodeThrown(data) # ""
     THEN senderShowStatus(cleared, DisplayError(QRCodeThrown(data)), "error")
     ELSE updateProgress([cleared EXCEPT !.el.qrDisplay.children = <<data>>],
                         frameIndex + 1, Len(cleared.sender.frames))

generateQRCode(st) ==
  LET txt == trim(st.el.textInput)
  IN IF txt = <<>>
     THEN senderShowStatus(st, EnterText, "warning")
     ELSE LET started == senderShowStatus(st, Generating, "info")
              framed == [started EXCEPT !.sender.frames = <<txt>>]
              displayed == displayQRCode(framed, txt, 0)
              enabled == [displayed EXCEPT !.el.playBtn.disabled = FALSE,
                                           !.el.pauseBtn.disabled = FALSE,
                                           !.el.stopBtn.disabled = FALSE]
          IN senderShowStatus(enabled, GeneratedOk(Len(txt)), "info")

startPlayback(st) ==
  IF Len(st.sender.frames) = 0
  THEN senderShowStatus(st, NothingToPlay, "warning")
  ELSE LET playing == [st EXCEPT !.sender.isPlaying = TRUE,
                                 !.el.playBtn.disabled = TRUE,
                                 !.el.pauseBtn.disabled = FALSE,
                                 !.el.progressSection = "block"]
       IN senderShowStatus(displayQRCode(playing, st.sender.frames[1], 0),
                           PlayingSingle, "info")

\* if (this.playbackInterval) { clearInterval(...); this.playbackInterval = null; }
clearPlaybackInterval(st) ==
  IF Truthy(st.sender.playbackInterval)
  THEN [st EXCEPT !.sender.playbackInterval = Null]
  ELSE st

pausePlayback(st) ==
  LET paused == [st EXCEPT !.sender.isPlaying = FALSE,
                           !.el.playBtn.disabled = FALSE,
                           !.el.pauseBtn.disabled = TRUE]
  IN senderShowStatus(clearPlaybackInterval(paused), PlaybackPaused, "info")

stopPlayback(st) ==
  LET stopped == [st EXCEPT !.sender.isPlaying = FALSE,
                            !.el.playBtn.disabled = FALSE,
                            !.el.pauseBtn.disabled = TRUE,
                            !.sender.currentFrame = 0]
      cleared == clearPlaybackInterval(stopped)
  IN senderShowStatus([cleared EXCEPT !.el.progressSection = "none",
                                      !.el.qrDisplay = [innerHTML |-> StoppedPlaceholder,
                                                        children |-> <<>>]],
                      PlaybackStopped, "info")

\* the frames are dropped and playback is left as it is
clearAllNoStop(st) ==
  LET emptied == [st EXCEPT !.el.textInput = <<>>,
                            !.sender.frames = <<>>,
                            !.sender.currentFrame = 0]
  IN senderShowStatus([emptied EXCEPT !.el.qrDisplay = [innerHTML |-> EmptyPlaceholder,
                                                        children |-> <<>>],
                                      !.el.progressSection = "none",
                                      !.el.playBtn.disabled = TRUE,
                                      !.el.pauseBtn.disabled = TRUE,
                                      !.el.stopBtn.disabled = TRUE],
                      AllCleared, "info")

clearAll(st) ==
  LET emptied == [st EXCEPT !.el.textInput = <<>>,
                            !.sender.frames = <<>>,
                            !.sender.currentFrame = 0]
      stopped == stopPlayback(emptied)
  IN senderShowStatus([stopped EXCEPT !.el.qrDisplay = [innerHTML |-> EmptyPlaceholder,
                                                        children |-> <<>>],
                                      !.el.progressSection = "none",
                                      !.el.playBtn.disabled = TRUE,
                                      !.el.pauseBtn.disabled = TRUE,
                                      !.el.stopBtn.disabled = TRUE],
                      AllCleared, "info")

\* what the user can have typed into the text field
SenderInputs == SeqsUpTo({"a", " "}, MaxInput)

SenderState == [sender |-> sender, el |-> mockElements, timers |-> senderTimers]

\* the handler has run and left the sender in the state st
becomes(st) ==
  /\ sender' = st.sender
  /\ mockElements' = st.el
  /\ senderTimers' = st.timers
  /\ UNCHANGED <<cameraVars, loaderVars, parserVars, text, options, generated, frames,
                 result, pc, chunkerVars, receiverVars>>

\* mockElements.textInput.value = ...
SetTextInput ==
  \E value \in SenderInputs :
    becomes([SenderState EXCEPT !.el.textInput = value])

\* a handler starts at most two timers
RoomForTimers == Len(senderTimers) + 2 <= MaxSenderTimers

GenerateQRCode == RoomForTimers /\ becomes(generateQRCode(SenderState))
StartPlayback == RoomForTimers /\ becomes(startPlayback(SenderState))
PausePlayback == RoomForTimers /\ becomes(pausePlayback(SenderState))
StopPlayback == RoomForTimers /\ becomes(stopPlayback(SenderState))
ClearAll == RoomForTimers /\ becomes(clearAll(SenderState))

\* the timer of showStatus; all timers of the sender have the same delay
\* and fire in the order in which they were started
SenderHideStatus ==
  /\ senderTimers # <<>>
  /\ becomes([SenderState EXCEPT
                !.timers = Tail(senderTimers),
                !.el.statusContainer =
                   IF includes(mockElements.statusContainer, Head(senderTimers).message)
                   THEN statusHTML(Ready, "info")
                   ELSE mockElements.statusContainer])

NextSender ==
  \/ SetTextInput
  \/ GenerateQRCode
  \/ StartPlayback
  \/ PausePlayback
  \/ StopPlayback
  \/ ClearAll
  \/ SenderHideStatus

SpecSender == Init /\ [][NextSender]_vars

(***************************************************************************)
(* The resource loader: ResourceLoader.  A load is one call of             *)
(* _loadResourceImpl and the promise it returns; loads keeps every load    *)
(* with the sources it has tried so far.                                   *)
(***************************************************************************)
\* this.resources, with an empty basePath
resources ==
  [qrcode |->
     [local |-> "libs/qrcode.min.js",
      cdns |-> <<"https://cdnjs.cloudflare.com/ajax/libs/qrcodejs/1.0.0/qrcode.min.js",
                 "https://cdn.jsdelivr.net/npm/qrcodejs@1.0.0/qrcode.min.js",
                 "https://unpkg.com/qrcodejs@1.0.0/qrcode.min.js">>],
   jsQR |->
     [local |-> "libs/jsQR.js",
      cdns |-> <<"https://cdn.jsdelivr.net/npm/jsqr@1.4.0/dist/jsQR.js",
                 "https://unpkg.com/jsqr@1.4.0/dist/jsQR.js",
                 "https://cdnjs.cloudflare.com/ajax/libs/jsqr/1.4.0/jsQR.min.js">>]]

\* the CDN URLs are asked before the local copy
sourcesCdnsFirst(resourceName) ==
  resources[resourceName].cdns \o <<resources[resourceName].local>>

\* the URLs _loadResourceImpl asks, in its order: resource.local, then
\* for (const cdn of resource.cdns)
sources(resourceName) ==
  <<resources[resourceName].local>> \o resources[resourceName].cdns

\* the resource a script URL belongs to
resourceOf(src) == CHOOSE n \in DOMAIN resources : src \in Range(sources(n))

UnknownResource(resourceName) == <<"Unknown resource: ", resourceName>>
FailedToLoad(resourceName) == <<"Failed to load resource: ", resourceName>>

\* one source a load has asked: the script is still awaited, or it was
\* loaded or gave an error; test is the value of resource.test() then
Asked(src, outcome, test) == [src |-> src, outcome |-> outcome, test |-> test]

NewLoad(resourceName) ==
  [name |-> resourceName, state |-> "pending", tried |-> <<>>, reason |-> <<>>]

\* A load that is about to ask source number k, on a document with the
\* script elements dom and the globals defined.  _loadScript resolves at
\* once for a script that is there and loaded and the load goes on;
\* otherwise the load waits for the events of the script, which is created
\* if it is not there.  After the last source the load is rejected.
RECURSIVE loadFrom(_, _, _, _)
loadFrom(load, k, dom, globals) ==
  IF k > Len(sources(load.name))
  THEN [load |-> [load EXCEPT !.state = "rejected", !.reason = FailedToLoad(load.name)],
        scripts |-> dom]
  ELSE LET src == sources(load.name)[k]
       IN IF src \in DOMAIN dom /\ dom[src] = "loaded"
          THEN LET test == load.name \in globals
                   asked == [load EXCEPT !.tried = Append(@, Asked(src, "loaded", test))]
               IN IF test
                  THEN [load |-> [asked EXCEPT !.state = "fulfilled"], scripts |-> dom]
                  ELSE loadFrom(asked, k + 1, dom, globals)
          ELSE [load |-> [load EXCEPT !.tried = Append(@, Asked(src, "awaiting", FALSE))],
                scripts |-> (src :> "loading") @@ dom]

\* _loadResourceImpl up to its first wait
loadResourceImpl(resourceName, dom, globals) ==
  IF resourceName \in globals
  THEN [load |-> [NewLoad(resourceName) EXCEPT !.state = "fulfilled"], scripts |-> dom]
  ELSE loadFrom(NewLoad(resourceName), 1, dom, globals)

\* the source a pending load waits for
awaited(load) ==
  IF load.state = "pending" /\ load.tried # <<>> THEN load.tried[Len(load.tried)].src
  ELSE ""

\* _loadResourceImpl after the load or error event of the script it waits
\* for: a loaded script with the test passed ends the load, anything else
\* leads to the next source
resumed(load, ok, dom, globals) ==
  LET n == Len(load.tried)
      test == load.name \in globals
      asked == [load EXCEPT !.tried[n] = Asked(@.src, IF ok THEN "loaded" ELSE "error", test)]
  IN IF ok /\ test
     THEN [load |-> [asked EXCEPT !.state = "fulfilled"], scripts |-> dom]
     ELSE loadFrom(asked, n + 1, dom, globals)

\* map.delete(key)
mapDelete(map, key) == [k \in DOMAIN map \ {key} |-> map[k]]

\* what a caller can ask for
RequestedNames == DOMAIN resources \cup {"other"}

\* a call that starts a load whether or not one is in flight
loadResourceAlwaysStarts(resourceName) ==
  IF resourceName \in loadedResources
  THEN /\ called' = [name |-> resourceName, returned |-> "resolved", load |-> 0]
       /\ UNCHANGED <<loadedResources, loadingPromises, loads, scripts, defined, waiting>>
  ELSE IF resourceName \notin DOMAIN resources
  THEN /\ called' = [name |-> resourceName, returned |-> "rejected", load |-> 0]
       /\ UNCHANGED <<loadedResources, loadingPromises, loads, scripts, defined, waiting>>
  ELSE /\ Len(loads) < MaxLoads
       /\ LET started == loadResourceImpl(resourceName, scripts, defined)
              id == Len(loads) + 1
          IN /\ loads' = Append(loads, started.load)
             /\ scripts' = started.scripts
             /\ loadingPromises' = (resourceName :> id) @@ loadingPromises
             /\ waiting' = waiting \cup {id}
             /\ called' = [name |-> resourceName, returned |-> "started", load |-> id]
       /\ UNCHANGED <<loadedResources, defined>>

\* loadResource(resourceName) up to its await: a loaded name resolves, a
\* name in flight gets the promise of the load in flight, an unknown name is
\* rejected, and otherwise a load is started and registered
loadResource(resourceName) ==
  IF resourceName \in loadedResources
  THEN /\ called' = [name |-> resourceName, returned |-> "resolved", load |-> 0]
       /\ UNCHANGED <<loadedResources, loadingPromises, loads, scripts, defined, waiting>>
  ELSE IF resourceName \in DOMAIN loadingPromises
  THEN /\ called' = [name |-> resourceName, returned |-> "shared",
                     load |-> loadingPromises[resourceName]]
       /\ UNCHANGED <<loadedResources, loadingPromises, loads, scripts, defined, waiting>>
  ELSE IF resourceName \notin DOMAIN resources
  THEN /\ called' = [name |-> resourceName, returned |-> "rejected", load |-> 0]
       /\ UNCHANGED <<loadedResources, loadingPromises, loads, scripts, defined, waiting>>
  ELSE /\ Len(loads) < MaxLoads
       /\ LET started == loadResourceImpl(resourceName, scripts, defined)
              id == Len(loads) + 1
          IN /\ loads' = Append(loads, started.load)
             /\ scripts' = started.scripts
             /\ loadingPromises' = (resourceName :> id) @@ loadingPromises
             /\ waiting' = waiting \cup {id}
             /\ called' = [name |-> resourceName, returned |-> "started", load |-> id]
       /\ UNCHANGED <<loadedResources, defined>>

notLoaderVars ==
  <<cameraVars, senderVars, parserVars, text, options, generated, frames, result, pc, chunkerVars,
    receiverVars>>

LoadResource ==
  /\ \E resourceName \in RequestedNames : loadResource(resourceName)
  /\ UNCHANGED notLoaderVars

\* the load or error event of a script that is loading.  A loaded script is
\* marked (dataset.loaded) and may or may not define the global of its
\* resource; a script with an error is removed.  The loads that wait for it
\* go on.
scriptEvent(src, ok, defines) ==
  LET dom == IF ok THEN [scripts EXCEPT ![src] = "loaded"] ELSE mapDelete(scripts, src)
      globals == IF ok /\ defines THEN defined \cup {resourceOf(src)} ELSE defined
      going == {id \in DOMAIN loads : awaited(loads[id]) = src}
      after == [id \in going |-> resumed(loads[id], ok, dom, globals)]
  IN /\ defined' = globals
     /\ loads' = [id \in DOMAIN loads |-> IF id \in going THEN after[id].load ELSE loads[id]]
     /\ scripts' = [s \in DOMAIN dom \cup UNION {DOMAIN after[id].scripts : id \in going} |->
                      IF s \in DOMAIN dom THEN dom[s] ELSE "loading"]
     /\ UNCHANGED <<loadedResources, loadingPromises, waiting, called>>

ScriptEvent ==
  /\ \E src \in DOMAIN scripts, ok \in BOOLEAN, defines \in BOOLEAN :
       /\ scripts[src] = "loading"
       /\ ok \/ ~defines
       /\ scriptEvent(src, ok, defines)
  /\ UNCHANGED notLoaderVars

\* loadResource after await loadPromise, for the call that started load id:
\* the name is added to loadedResources if the load was fulfilled, and the
\* entry of the name is deleted from loadingPromises either way
afterAwait(id) ==
  /\ loadedResources' = IF loads[id].state = "fulfilled"
                        THEN loadedResources \cup {loads[id].name}
                        ELSE loadedResources
  /\ loadingPromises' = mapDelete(loadingPromises, loads[id].name)
  /\ waiting' = waiting \ {id}
  /\ UNCHANGED <<loads, scripts, defined, called>>

AfterAwait ==
  /\ \E id \in waiting :
       /\ loads[id].state # "pending"
       /\ afterAwait(id)
  /\ UNCHANGED notLoaderVars

NextLoader == LoadResource \/ ScriptEvent \/ AfterAwait

SpecLoader == Init /\ [][NextLoader]_vars

(***************************************************************************)
(* The camera of the receiver: startCamera, stopCamera, startScanning and  *)
(* scanFrame of QRDataReceiver.                                            *)
(***************************************************************************)
\* the texts the camera handlers show, in English
RequestingCamera == <<"Requesting camera permission...">>
CameraStarted == <<"Camera started, point it at the QR code">>
CameraFailed == <<"Camera access failed: ", "Permission denied">>
UseHttps == <<"Make sure to use HTTPS and grant camera permission">>
CameraStoppedText == <<"Camera stopped">>
ScanningText == <<"Scanning for QR codes...">>
ScanError == <<"QR scan error: ", "Scanning failed">>

\* the width of the video once it has its metadata
VideoWidth == 640

\* the part of the receiver that the camera handlers write
CameraState ==
  [stream |-> stream, scanInterval |-> scanInterval, video |-> video,
   intervals |-> intervals, statusContainer |-> statusContainer, timers |-> timers]

cameraShowStatus(st, message, type) ==
  LET shown == showStatus(st, message, type)
  IN [st EXCEPT !.statusContainer = shown.statusContainer, !.timers = shown.timers]

\* startScanning: setInterval gives a new interval, whose id is stored in
\* scanInterval; intervals[id] tells whether interval id is still active
startScanning(st) ==
  LET id == Len(st.intervals) + 1
  IN cameraShowStatus([st EXCEPT !.scanInterval = Num(id),
                                 !.intervals = Append(@, TRUE)],
                      ScanningText, "info")

RECURSIVE callListeners(_, _)
\* the 'loadedmetadata' listeners of the video, each calling startScanning
callListeners(st, n) ==
  IF n = 0 THEN st ELSE callListeners(startScanning(st), n - 1)

\* stopCamera; width is the videoWidth of the element once its stream is
\* taken away
stopCamera(st, width) ==
  LET untracked == IF st.stream # Null THEN [st EXCEPT !.stream = Null] ELSE st
      cleared == IF Truthy(untracked.scanInterval)
                 THEN [untracked EXCEPT !.intervals[untracked.scanInterval.n] = FALSE,
                                        !.scanInterval = Null]
                 ELSE untracked
  IN cameraShowStatus([cleared EXCEPT !.video.srcObject = Null,
                                      !.video.videoWidth = width],
                      CameraStoppedText, "info")

\* the receiver variables no camera handler writes
notCameraVars ==
  <<fieldVars, receivedData, resultsSection, progressFill, progressText, videoFilter,
    storedDataSection, storedSessions, localStorage, clock, lastCall>>

notReceiverVars ==
  <<loaderVars, senderVars, parserVars, text, options, generated, frames, result, pc,
    chunkerVars>>

\* the handler has run and left the camera in the state st
cameraBecomes(st) ==
  /\ stream' = st.stream
  /\ scanInterval' = st.scanInterval
  /\ video' = st.video
  /\ intervals' = st.intervals
  /\ statusContainer' = st.statusContainer
  /\ timers' = st.timers

\* startCamera up to await getUserMedia
StartCamera ==
  /\ mediaDevices.requested < MaxStarts
  /\ Len(timers) < MaxTimers
  /\ cameraBecomes(cameraShowStatus(CameraState, RequestingCamera, "info"))
  /\ mediaDevices' = [mediaDevices EXCEPT !.requested = @ + 1, !.pending = @ + 1]
  /\ cameraCall' = "startCamera"
  /\ UNCHANGED <<startCameraBtn, stopCameraBtn, progressSection, notCameraVars,
                 notReceiverVars>>

\* getUserMedia resolves with a new stream: startCamera goes on after its
\* await, attaches the stream to the video and adds a 'loadedmetadata'
\* listener
CameraGranted ==
  /\ mediaDevices.pending > 0
  /\ Len(timers) < MaxTimers
  /\ LET id == mediaDevices.granted + 1
         attached == [CameraState EXCEPT !.stream = Num(id),
                                         !.video.srcObject = Num(id),
                                         !.video.listeners = @ + 1]
     IN /\ cameraBecomes(cameraShowStatus(attached, CameraStarted, "info"))
        /\ mediaDevices' = [mediaDevices EXCEPT !.pending = @ - 1, !.granted = id]
  /\ startCameraBtn' = [disabled |-> TRUE]
  /\ stopCameraBtn' = [disabled |-> FALSE]
  /\ progressSection' = "block"
  /\ UNCHANGED <<cameraCall, notCameraVars, notReceiverVars>>

\* getUserMedia rejects: the catch of startCamera shows the error and a hint
CameraDenied ==
  /\ mediaDevices.pending > 0
  /\ Len(timers) < MaxTimers
  /\ cameraBecomes(cameraShowStatus(cameraShowStatus(CameraState, CameraFailed, "error"),
                                    UseHttps, "warning"))
  /\ mediaDevices' = [mediaDevices EXCEPT !.pending = @ - 1]
  /\ UNCHANGED <<cameraCall, startCameraBtn, stopCameraBtn, progressSection,
                 notCameraVars, notReceiverVars>>

\* the video has the metadata of its stream: it has its dimensions and its
\* 'loadedmetadata' listeners run
LoadedMetadata ==
  /\ video.srcObject # Null
  /\ Len(intervals) + video.listeners <= MaxIntervals
  /\ Len(timers) + video.listeners <= MaxTimers
  /\ cameraBecomes(callListeners([CameraState EXCEPT !.video.videoWidth = VideoWidth],
                                 video.listeners))
  /\ UNCHANGED <<mediaDevices, cameraCall, startCameraBtn, stopCameraBtn, progressSection,
                 notCameraVars, notReceiverVars>>

\* a call of startScanning
StartScanning ==
  /\ Len(intervals) < MaxIntervals
  /\ Len(timers) < MaxTimers
  /\ cameraBecomes(startScanning(CameraState))
  /\ cameraCall' = "startScanning"
  /\ UNCHANGED <<mediaDevices, startCameraBtn, stopCameraBtn, progressSection,
                 notCameraVars, notReceiverVars>>

\* a call of stopCamera.  The video of a browser has no dimensions without
\* a stream; the video of the tests keeps them.
StopCamera ==
  /\ Len(timers) < MaxTimers
  /\ \E width \in {0, video.videoWidth} : cameraBecomes(stopCamera(CameraState, width))
  /\ startCameraBtn' = [disabled |-> FALSE]
  /\ stopCameraBtn' = [disabled |-> TRUE]
  /\ cameraCall' = "stopCamera"
  /\ UNCHANGED <<mediaDevices, progressSection, notCameraVars, notReceiverVars>>

\* what jsQR does with a frame: it finds nothing, it finds the code the
\* camera is held at, or it throws
CameraPayloads == {OneFrame[1].raw}
JsQRThrows == [type |-> "throws"]
JsQROutcomes == {Null, JsQRThrows} \cup {Str(p) : p \in CameraPayloads}

\* scanFrame with the outcome of jsQR
scanFrame(code, now) ==
  IF video.videoWidth = 0
  THEN UNCHANGED <<fieldVars, pageVars, localStorage, timers, clock, lastCall>>
  ELSE IF code = JsQRThrows
  THEN /\ statusContainer' = showStatus(CameraState, ScanError, "error").statusContainer
       /\ UNCHANGED <<fieldVars, receivedData, resultsSection, progressSection,
                      progressFill, progressText, videoFilter, storedDataSection,
                      storedSessions, localStorage, timers, clock, lastCall>>
  ELSE IF code = Null
  THEN UNCHANGED <<fieldVars, pageVars, localStorage, timers, clock, lastCall>>
  ELSE processQRCode(code.s, now)

\* an active interval fires: this.scanFrame()
ScanTick ==
  /\ \E id \in DOMAIN intervals :
       /\ intervals[id]
       /\ \E code \in JsQROutcomes, now \in clock..MaxClock : scanFrame(code, now)
  /\ UNCHANGED <<stream, scanInterval, video, intervals, mediaDevices, cameraCall,
                 startCameraBtn, stopCameraBtn, notReceiverVars>>

NextCamera ==
  \/ StartCamera
  \/ CameraGranted
  \/ CameraDenied
  \/ LoadedMetadata
  \/ StartScanning
  \/ StopCamera
  \/ ScanTick

SpecCamera == Init /\ [][NextCamera]_vars

(***************************************************************************)
(* A transmission in which one character of one payload is altered on the  *)
(* way and the checksum of the metadata is left as it was.                 *)
(***************************************************************************)
HexChars == {"0", "1", "2", "3", "4", "5", "6", "7", "8", "9", "a", "b", "c", "d", "e", "f"}

\* the texts that are sent: every text of up to MaxCorruptLen characters,
\* and texts of eight characters that are long enough for the hash to wrap
LongPrefix == <<"c", "c", "6", "0", "3", "a", "6">>
CorruptionTexts ==
  SeqsUpTo(HexChars, MaxCorruptLen)
  \cup {LongPrefix \o s : s \in SeqsUpTo(HexChars, MaxCorruptLen) \ {<<>>}}

\* the payload d with the character at position p replaced by c
withCharacter(d, p, c) == [d EXCEPT ![p] = c]

\* the same frame with one character of its payload altered
corruptedFrames(f) ==
  LET o == decodeFrame(f.raw)
      d == Get(o, "d").s
      altered == {withCharacter(d, p, c) : p \in DOMAIN d, c \in HexChars} \ {d}
  IN {[f EXCEPT !.raw = JSONstringify(SetProp(o, "d", Str(a)))] : a \in altered}

\* the generated frames with one character of one payload altered
CorruptedBatches ==
  UNION {{[generated EXCEPT ![k] = f] : f \in corruptedFrames(generated[k])} :
           k \in DOMAIN generated}

GenerateForCorruption ==
  /\ pc = "idle"
  /\ \E txt \in CorruptionTexts, option \in ChunkSizeOptions, now \in Timestamps :
       generate(txt, option, now)

ParseCorrupted ==
  /\ pc = "generated"
  /\ \E batch \in CorruptedBatches : parse(batch)

NextCorrupt == GenerateForCorruption \/ ParseCorrupted

SpecCorrupt == Init /\ [][NextCorrupt]_vars

(***************************************************************************)
(* Properties                                                              *)
(***************************************************************************)
Parsed == pc = "parsed"
Succeeded == Parsed /\ "error" \notin DOMAIN result

\* the chunk size the sender was asked for
RequestedSize == IF options.type = "number" THEN options.n ELSE DefaultChunkSize

\* the payloads of the generated frames, in list order
GeneratedChunks == [k \in DOMAIN generated |-> generated[k].data]

\* the result of a parse that returns the sender's text and metadata and
\* finds the embedded checksum confirmed
IntactResult ==
  /\ Succeeded
  /\ result.data = text
  /\ result.metadata = generated[1].metadata
  /\ result.integrity.valid = TRUE
  /\ result.integrity.reason = ChecksumVerified

RECURSIVE IsSubsequence(_, _)
\* a is b with some elements left out
IsSubsequence(a, b) ==
  IF a = <<>> THEN TRUE
  ELSE IF b = <<>> THEN FALSE
  ELSE IF Head(a) = Head(b) THEN IsSubsequence(Tail(a), Tail(b))
  ELSE IsSubsequence(a, Tail(b))

\* C1: Round-trip. Parsing the frame list that generateQRData produced for a
\* text T and a chunk size S > 0 (or the default size) returns data equal to
\* T, no error, and integrity.valid = true.
C1_RoundTrip ==
  (Parsed /\ frames = generated) =>
    /\ "error" \notin DOMAIN result
    /\ result.data = text
    /\ result.integrity.valid = TRUE

C1_Witness ==
  /\ Parsed
  /\ frames = generated
  /\ Len(generated) = 3
  /\ "\"" \in Range(text)
  /\ result.data = text

\* C2: Chunker. For a non-empty text T and a chunk size S >= 1 the chunks
\* returned by chunkData are ceil(len(T)/S) many, all but the last have
\* length exactly S, the last has a length in 1..S, and their concatenation
\* in order is T.
C2_Chunker ==
  (pc # "idle" /\ text # <<>>) =>
    LET S == RequestedSize
        n == Len(GeneratedChunks)
    IN /\ n = (Len(text) + S - 1) \div S
       /\ \A k \in 1..(n - 1) : Len(GeneratedChunks[k]) = S
       /\ Len(GeneratedChunks[n]) \in 1..S
       /\ Flatten(GeneratedChunks) = text

C2_Witness ==
  /\ pc = "generated"
  /\ Len(text) = 3
  /\ options = Num(2)
  /\ Len(generated) = 2
  /\ Len(generated[2].data) = 1

\* C3: Empty text. Chunking the empty text in generateQRData gives exactly
\* one empty chunk: one frame with index 0, total 1 and empty payload, and
\* parsing that frame returns data '' with integrity.valid = true.
C3_EmptyText ==
  (pc # "idle" /\ text = <<>>) =>
    /\ GeneratedChunks = << <<>> >>
    /\ LET frame == decodeFrame(generated[1].raw)
       IN /\ Get(frame, "i") = Num(0)
          /\ Get(frame, "t") = Num(1)
          /\ Get(frame, "d") = Str(<<>>)
    /\ (Parsed /\ frames = generated) =>
         /\ "error" \notin DOMAIN result
         /\ result.data = <<>>
         /\ result.integrity.valid = TRUE

C3_Witness ==
  /\ Parsed
  /\ text = <<>>
  /\ Len(generated) = 1
  /\ frames = generated
  /\ result.data = <<>>

\* C4: Order independence. For every permutation of the complete generated
\* frame list parseQRData returns what it returns for the list in order:
\* data = T, the sender's metadata and integrity.valid = true.
C4_OrderIndependence ==
  (Parsed /\ Len(frames) = Len(generated) /\ Range(frames) = Range(generated)) =>
    IntactResult

C4_Witness ==
  /\ Parsed
  /\ Len(generated) = 3
  /\ frames = <<generated[3], generated[1], generated[2]>>
  /\ result.data = text

\* C5: Duplicate tolerance. Extra copies of frames of a complete generated
\* list, put in at any positions, do not change the result of parseQRData:
\* same data, same metadata, integrity.valid = true.
C5_DuplicateTolerance ==
  (Parsed /\ IsSubsequence(generated, frames) /\ Range(frames) = Range(generated)) =>
    IntactResult

C5_Witness ==
  /\ Parsed
  /\ Len(generated) = 2
  /\ frames = <<generated[1], generated[1], generated[2], generated[1]>>
  /\ result.data = text

\* the frames of the parsed list as the receiver decodes them
Decoded == [k \in DOMAIN frames |-> decodeFrame(frames[k].raw)]

\* a frame with the fields of the wire format: integers v, i, t, a string d
WellFormed(f) ==
  /\ f.type = "object"
  /\ Get(f, "v").type = "number"
  /\ Get(f, "i").type = "number"
  /\ Get(f, "t").type = "number"
  /\ Get(f, "d").type = "string"
  /\ Get(f, "error").type = "undefined"

AllWellFormed == \A k \in DOMAIN frames : WellFormed(Decoded[k])

IndexOf(k) == Get(Decoded[k], "i").n
TotalOf(k) == Get(Decoded[k], "t").n

PresentIndices == {IndexOf(k) : k \in DOMAIN frames}
DeclaredTotals == {TotalOf(k) : k \in DOMAIN frames}

\* the positions that hold the first frame of their index
FirstSeen == {k \in DOMAIN frames : \A j \in 1..(k - 1) : IndexOf(j) # IndexOf(k)}

RECURSIVE Ascending(_)
\* the elements of a finite set of integers in ascending order
Ascending(S) ==
  IF S = {} THEN <<>>
  ELSE LET least == CHOOSE x \in S : \A y \in S : x <= y
       IN <<least>> \o Ascending(S \ {least})

MissingOf(n) == (0..(n - 1)) \ PresentIndices

RemoveAt(list, k) == SubSeq(list, 1, k - 1) \o SubSeq(list, k + 1, Len(list))

\* a batch of well-formed frames that all declare the total n and lack some
\* index of 0..n-1 is rejected with exactly the missing indices, ascending
MissingReported ==
  (Parsed /\ AllWellFormed) =>
    \A n \in DeclaredTotals :
      (DeclaredTotals = {n} /\ MissingOf(n) # {}) =>
        result = [error |-> MissingFrames(Ascending(MissingOf(n)))]

C7_InconsistentTotalDetected ==
  (Parsed /\ AllWellFormed /\ Cardinality({TotalOf(k) : k \in FirstSeen}) > 1) =>
    result = [error |-> <<InconsistentTotal>>]

\* C8: Invalid frame data. If at least one raw string of the batch cannot be
\* parsed, decoding it gives the error value and the whole batch is rejected
\* with 'Invalid frame data', whatever the other frames are; no text is
\* returned.
C8_InvalidFrameData ==
  (Parsed /\ \E k \in DOMAIN frames : ~JSONparse(frames[k].raw).ok) =>
    /\ \A k \in DOMAIN frames :
         ~JSONparse(frames[k].raw).ok =>
           Decoded[k] = Obj([error |-> Str(<<InvalidFrameData>>)])
    /\ result = [error |-> <<InvalidFrameData>>]

C8_Witness ==
  /\ Parsed
  /\ Len(generated) = 2
  /\ \E k \in DOMAIN frames :
       /\ ~JSONparse(frames[k].raw).ok
       /\ RemoveAt(frames, k) = generated
  /\ result = [error |-> <<InvalidFrameData>>]

\* the frame with index 0 that deduplication keeps
HasFrame0 == \E k \in FirstSeen : IndexOf(k) = 0
Frame0 == Decoded[CHOOSE k \in FirstSeen : IndexOf(k) = 0]
EmbeddedChecksum == Get(Get(Frame0, "m"), "checksum")

\* the payloads of the kept frames in ascending order of index
RECURSIVE PayloadsByIndex(_)
PayloadsByIndex(ks) ==
  IF ks = {} THEN <<>>
  ELSE LET first == CHOOSE k \in ks : \A j \in ks : IndexOf(k) <= IndexOf(j)
       IN Get(Decoded[first], "d").s \o PayloadsByIndex(ks \ {first})

\* C9: Checksum mismatch is a soft failure. When a batch passes validation
\* and the checksum recomputed over the reconstructed text differs from
\* metadata.checksum of frame 0, parseQRData returns the reconstructed text
\* with integrity = {valid: false, reason: 'Checksum mismatch', expected: the
\* embedded checksum, actual: the recomputed checksum} and no error.
C9_ChecksumMismatchSoft ==
  (Succeeded /\ AllWellFormed /\ HasFrame0 /\ Truthy(EmbeddedChecksum)
     /\ ~StrictEquals(Str(calculateChecksum(result.data)), EmbeddedChecksum)) =>
    /\ result.data = PayloadsByIndex(FirstSeen)
    /\ result.integrity = [valid |-> FALSE,
                           reason |-> ChecksumMismatch,
                           expected |-> EmbeddedChecksum,
                           actual |-> calculateChecksum(result.data)]

\* C10: No checksum. If the frame with index 0 carries no metadata, or
\* metadata without a checksum, verification returns valid = true with
\* reason 'No checksum to verify' and the reconstructed text is delivered.
C10_NoChecksum ==
  (Succeeded /\ AllWellFormed /\ HasFrame0 /\ ~Truthy(EmbeddedChecksum)) =>
    /\ result.data = PayloadsByIndex(FirstSeen)
    /\ result.integrity = [valid |-> TRUE, reason |-> NoChecksum]

\* Both statements hold of the batches without a negative index: there the
\* frame that sorts first is the frame with index 0.
NoNegativeIndex == \A k \in DOMAIN frames : IndexOf(k) >= 0
ChecksumMismatchSoftFromZero ==
  (Parsed /\ AllWellFormed /\ NoNegativeIndex) => C9_ChecksumMismatchSoft
NoChecksumFromZero ==
  (Parsed /\ AllWellFormed /\ NoNegativeIndex) => C10_NoChecksum

\* the checksum a generateQRData run embeds: in the metadata of its first
\* frame object and in the encoded string of that frame
ChecksumOfRun(run) == Get(run[1].metadata, "checksum")
EncodedChecksumOfRun(run) == Get(Get(decodeFrame(run[1].raw), "m"), "checksum")

\* the times of another call: those of the run at hand and a later one
OtherTimestamps == 1..(MaxTime + 1)

KeptTotals == {TotalOf(k) : k \in FirstSeen}

\* after deduplication the indices present are exactly 0..total-1 and the
\* kept frames declare one total
Reconstructible ==
  \E n \in KeptTotals : KeptTotals = {n} /\ PresentIndices = 0..(n - 1)

\* C12: Reconstructibility. For every non-empty batch of well-formed frames,
\* validateFrameSequence returns valid = true if and only if, after
\* deduplication by index, the set of indices present equals {0..total-1}
\* and all frames declare the same total.
C12_Reconstructibility ==
  (Parsed /\ frames # <<>> /\ AllWellFormed) =>
    (validateFrameSequence(Decoded).valid <=> Reconstructible)

\* The equivalence holds of the batches whose frames each satisfy
\* 0 <= index < total.
IndicesInRange == \A k \in DOMAIN frames : 0 <= IndexOf(k) /\ IndexOf(k) < TotalOf(k)
ReconstructibilityInRange ==
  (Parsed /\ frames # <<>> /\ AllWellFormed /\ IndicesInRange) =>
    (validateFrameSequence(Decoded).valid <=> Reconstructible)
ReconstructibleIsValid ==
  (Parsed /\ frames # <<>> /\ AllWellFormed /\ Reconstructible) =>
    validateFrameSequence(Decoded).valid

\* the generated frames as their encoded strings decode
GeneratedDecoded == [k \in DOMAIN generated |-> decodeFrame(generated[k].raw)]

\* C13: Sender frame invariant. Every frame list produced by generateQRData
\* has n >= 1 frames with indices 0..n-1 in list order, every frame declares
\* total n, metadata.totalChunks = n, and the metadata is carried by the
\* frame with index 0 and by no other frame, in the frame object and in its
\* encoded raw string.
C13_SenderFrameInvariant ==
  (pc = "generated") =>
    LET n == Len(generated)
    IN /\ n >= 1
       /\ \A k \in 1..n :
            /\ Get(GeneratedDecoded[k], "i") = Num(k - 1)
            /\ Get(GeneratedDecoded[k], "t") = Num(n)
            /\ generated[k].frameNumber = k
            /\ generated[k].totalFrames = n
            /\ (k = 1) => /\ generated[k].metadata.type = "object"
                          /\ Get(GeneratedDecoded[k], "m") = generated[k].metadata
                          /\ Get(generated[k].metadata, "totalChunks") = Num(n)
            /\ (k # 1) => /\ generated[k].metadata = Null
                          /\ "m" \notin DOMAIN GeneratedDecoded[k].props

\* a transmission of three frames
C13_Witness ==
  /\ pc = "generated"
  /\ Len(generated) = 3
  /\ "m" \in DOMAIN GeneratedDecoded[1].props
  /\ "m" \notin DOMAIN GeneratedDecoded[3].props

\* a maxChunkSize that is not a positive integer
NotPositiveInteger(x) == ~(x.type = "number" /\ x.n > 0)

\* the chunks and the time of the run with maxChunkSize = 800
FallbackChunks == chunksOf(text, DefaultChunkSize)
GeneratedAt == Get(generated[1].metadata, "timestamp").n

IsPrefix(a, b) == Len(a) <= Len(b) /\ SubSeq(b, 1, Len(a)) = a

\* the run at hand is, as far as it has come, the run with maxChunkSize =
\* 800: the chunks pushed are the first chunks of that run, the loop ends
\* once they are all pushed, and the frames returned are its frames
RunsAsWithDefault ==
  /\ pc \in {"chunking", "chunked", "generated"} => IsPrefix(chunks, FallbackChunks)
  /\ (pc = "chunking" /\ chunks = FallbackChunks) => ~LessThan(i, Len(text))
  /\ pc \in {"chunked", "generated"} => chunks = FallbackChunks
  /\ pc = "generated" =>
       generated = generateQRData(text, Num(DefaultChunkSize), GeneratedAt)

\* C14: Chunk-size fallback. When generateQRData is called with a
\* maxChunkSize that is not a positive integer (absent, 0, negative, or not
\* a number), the operation does not fail and does not hang: it terminates
\* and produces the same frames as with maxChunkSize = 800.
C14_ChunkSizeFallback == NotPositiveInteger(options) => RunsAsWithDefault

\* The fallback is taken for the values that are falsy.
FallbackForFalsy == ~Truthy(options) => RunsAsWithDefault

\* For a positive integer the loop followed step by step returns what
\* generateQRData returns.
StepwiseAgrees ==
  (pc = "generated" /\ ~NotPositiveInteger(options)) =>
    generated = generateQRData(text, options, GeneratedAt)

\* parseQRData returned a reconstruction or an error value
ReturnedNormally ==
  \/ DOMAIN result = {"data", "metadata", "integrity"}
  \/ DOMAIN result = {"error"}

\* C15: Errors are values. For every list of raw frame strings (the empty
\* list, unparseable strings, strings that parse to non-object values,
\* frames with missing fields, frames with any integer index or total),
\* parseQRData returns normally with either {data, metadata, integrity} or
\* {error}; no exception escapes it.
C15_ErrorsAreValues == Parsed => ReturnedNormally

\* parseQRData returns normally for every batch that declares no total
\* above the greatest array length.
HugeTotal == \E k \in DOMAIN frames : frames[k].raw = hugeTotalRaw
ErrorsAreValuesBelowLimit == (Parsed /\ ~HugeTotal) => ReturnedNormally

\* a payload that is a frame whose total differs from the total of the frame
\* on display, which is the frame accepted last
ConflictingTotal(qrData) ==
  /\ receivedData # <<>>
  /\ WellFormed(decodeFrame(receivedData))
  /\ WellFormed(decodeFrame(qrData))
  /\ Get(decodeFrame(qrData), "t") # Get(decodeFrame(receivedData), "t")

\* what the receiver holds of the frames it has accepted
accumulatedVars ==
  <<receivedFrames, totalFrames, receivedData, resultsSection, progressFill,
    progressText, localStorage, storedSessions>>

\* C16: Accumulator, conflicting total. Inserting a frame whose total differs
\* from the total of the frames already accepted is rejected with
\* InconsistentTotal, and the accumulated set of frames and the accumulator
\* state are exactly what they were before the insert.
C16_ConflictingTotalRejected ==
  [][\A qrData \in ScanPayloads, now \in 1..MaxClock :
       (ConflictingTotal(qrData) /\ processQRCode(qrData, now)) =>
         /\ statusContainer' = statusHTML(<<InconsistentTotal>>, "error")
         /\ UNCHANGED accumulatedVars]_vars

\* the receiver reports the transmission complete
isComplete == progressText = TransferComplete

\* The frames accepted since the last reset, where the fields of the receiver
\* tell them: none while scanCount is 0, the frame in lastScannedData while
\* scanCount is 1.
NothingAccepted == scanCount = 0
OneAccepted == scanCount = 1 /\ lastScannedData # Null
AcceptedFrame == decodeFrame(lastScannedData.s)

\* C17: Accumulator, completion. After any sequence of insert and reset
\* calls, isComplete() is true if and only if the currently accumulated set
\* of frames would pass the Sequence Validator (indices exactly 0..total-1,
\* one agreed total).
C17_CompleteIffValid ==
  /\ NothingAccepted => (isComplete <=> validateFrameSequence(<<>>).valid)
  /\ OneAccepted => (isComplete <=> validateFrameSequence(<<AcceptedFrame>>).valid)

\* the error of a finalize that comes too early
NotReady == "NotReady"

\* C18: Accumulator, finalize. finalize() called while isComplete() is false
\* returns the NotReady error and changes nothing; finalize() called while
\* isComplete() is true returns the reconstruction result and moves the
\* accumulator to Complete, and Complete is left only by reset().  The
\* receiver delivers in processQRCode; the statement is made of the first
\* payload after a reset, which is then the whole accumulated set.
C18_Finalize ==
  [][/\ \A qrData \in ScanPayloads, now \in 1..MaxClock :
          (NothingAccepted /\ processQRCode(qrData, now)) =>
            IF validateFrameSequence(<<decodeFrame(qrData)>>).valid
            THEN /\ receivedData' = parseQRData(<<[raw |-> qrData]>>).data
                 /\ isComplete'
            ELSE /\ statusContainer' = statusHTML(<<NotReady>>, "error")
                 /\ UNCHANGED accumulatedVars
     /\ (isComplete /\ ~isComplete') => resetSession]_vars

\* C19: Reset. From any state, resetSession returns the session to Empty:
\* the set of received frames is empty, totalFrames is 0, scanCount is 0,
\* lastScannedData and sessionId are null, whatever was accumulated before.
C19_Reset ==
  [][resetSession =>
       /\ receivedFrames' = <<>>
       /\ totalFrames' = 0
       /\ scanCount' = 0
       /\ lastScannedData' = Null
       /\ sessionId' = Null]_vars

\* The same of the states that a reset has left behind.
EmptyAfterReset ==
  lastCall.op = "resetSession" =>
    /\ receivedFrames = <<>>
    /\ totalFrames = 0
    /\ scanCount = 0
    /\ lastScannedData = Null
    /\ sessionId = Null

\* a reset after two scans, one of them still held in lastScannedData when
\* the reset came: its session is stored, its timer is pending
C19_Witness ==
  /\ lastCall.op = "resetSession"
  /\ statusContainer = statusHTML(SessionReset, "info")
  /\ Cardinality(DOMAIN localStorage) = 2
  /\ \E k \in DOMAIN timers : timers[k].callback = "clearLastScannedData"
  /\ scanCount = 0
  /\ lastScannedData = Null

\* C20: Scan de-duplication. processQRCode called with a payload equal to
\* lastScannedData does nothing: scanCount, the displayed text, the stored
\* sessions and the status are unchanged, and no new timer is started.
C20_ScanDeduplication ==
  [][\A qrData \in ScanPayloads, now \in 1..MaxClock :
       (StrictEquals(Str(qrData), lastScannedData) /\ processQRCode(qrData, now)) =>
         UNCHANGED <<scanCount, receivedData, localStorage, storedSessions,
                     statusContainer, timers>>]_vars

\* the payload on display was scanned again and processQRCode returned at once
C20_Witness ==
  /\ lastCall = [op |-> "processQRCode", ignored |-> TRUE]
  /\ lastScannedData = Str(receivedData)
  /\ scanCount = 1
  /\ Len(timers) = 5

\* the positions of the batch whose raw string parses to a value that is no
\* well-formed frame
ParsedButMalformed ==
  {k \in DOMAIN frames : JSONparse(frames[k].raw).ok /\ ~WellFormed(Decoded[k])}

\* C21: Single-frame well-formedness. A raw string that parses but does not
\* have the fields v, i, t (integers) and d (string) is not accepted as a
\* frame: a batch that contains one is rejected with 'Invalid frame data'
\* and yields no reconstructed text.
C21_SingleFrameWellFormedness ==
  (Parsed /\ ParsedButMalformed # {}) =>
    /\ result = [error |-> <<InvalidFrameData>>]
    /\ "data" \notin DOMAIN result

\* What the filter of validateFrameSequence does reject among the strings
\* that parse: the literal null, which is falsy.
NullIsRejected ==
  (Parsed /\ \E k \in DOMAIN frames : Decoded[k] = Null) =>
    result = [error |-> <<InvalidFrameData>>]

\* a batch of one object without i and t passes validation and its d is
\* returned as the text
MalformedAccepted ==
  /\ Parsed
  /\ Len(frames) = 1
  /\ Decoded[1] = Obj([d |-> Str(<<"a">>)])
  /\ result.data = <<"a">>

\* the decoded frames at the positions that hold the first frame of their
\* index, in the order of the batch
FirstOccurrences ==
  LET first == Ascending(FirstSeen)
  IN [j \in DOMAIN first |-> Decoded[first[j]]]

\* two frames of the batch with the same index and different payloads
SameIndexOtherPayload(j, k) ==
  /\ j < k
  /\ IndexOf(j) = IndexOf(k)
  /\ Get(Decoded[j], "d") # Get(Decoded[k], "d")

\* C22: First-seen wins. Of several frames with the same index
\* deduplication keeps the one that occurs first in the batch, the kept
\* frames stand in the order of their first occurrence, and the
\* reconstructed text is made of the payloads of the first occurrences only.
C22_FirstSeenWins ==
  (Parsed /\ AllWellFormed /\ frames # <<>>) =>
    LET validation == validateFrameSequence(Decoded)
    IN /\ validation.valid => validation.uniqueFrames = FirstOccurrences
       /\ Succeeded => result.data = PayloadsByIndex(FirstSeen)

\* an altered copy of a frame stands before the frame itself: the text
\* returned carries the altered payload and not the sender's
C22_Witness ==
  /\ Succeeded
  /\ AllWellFormed
  /\ Cardinality(FirstSeen) = 2
  /\ \E j \in FirstSeen, k \in DOMAIN frames :
       /\ SameIndexOtherPayload(j, k)
       /\ frames[k] \in Range(generated)
  /\ result.data # text
  /\ result.data = PayloadsByIndex(FirstSeen)

\* frame.m || {} of the kept frame with index 0
MetadataOfFrame0 ==
  IF Truthy(Get(Frame0, "m")) THEN Get(Frame0, "m") ELSE EmptyObject

\* C23: Reconstructor. For every batch that passed validation the returned
\* text is the concatenation of the payloads in ascending order of index and
\* the returned metadata is the metadata of the frame whose index is 0.
C23_Reconstructor ==
  (Succeeded /\ AllWellFormed) =>
    /\ result.data = PayloadsByIndex(FirstSeen)
    /\ HasFrame0 => result.metadata = MetadataOfFrame0

\* The text is as stated for every validated batch, and so is the metadata
\* when no frame of the batch has a negative index.
ReconstructedText ==
  (Succeeded /\ AllWellFormed) => result.data = PayloadsByIndex(FirstSeen)
ReconstructorFromZero ==
  (Parsed /\ AllWellFormed /\ NoNegativeIndex) => C23_Reconstructor

\* a validated batch with a frame of index -1 before the frame of index 0:
\* the metadata returned is empty although frame 0 carries the sender's
MetadataOfNegativeFrame ==
  /\ Succeeded
  /\ AllWellFormed
  /\ HasFrame0
  /\ -1 \in PresentIndices
  /\ Truthy(Get(Frame0, "m"))
  /\ result.metadata = EmptyObject

\* the array handed to reconstructData as it was when the call was made
HandedToReconstructData ==
  IF framesToUse = "uniqueFrames" THEN validateFrameSequence(Decoded).uniqueFrames
  ELSE Decoded

\* C24: Reconstructor purity. reconstructData leaves the frame collection it
\* is given unchanged, same elements in the same order, and parseQRData
\* leaves the caller's frame list unchanged.
C24_ReconstructorPurity ==
  (Succeeded /\ framesToUse # "none") =>
    /\ arrays[framesToUse] = HandedToReconstructData
    /\ arrays.frames = frames

\* What holds: the caller's list is as it was handed in, since
\* reconstructData is given the array that validateFrameSequence built.
CallerListUnchanged ==
  Parsed => (arrays.frames = frames /\ framesToUse \in {"none", "uniqueFrames"})

\* frames handed over out of order: the array given to reconstructData comes
\* back sorted
ArgumentReordered ==
  /\ Succeeded
  /\ Len(frames) = 2
  /\ framesToUse = "uniqueFrames"
  /\ HandedToReconstructData = <<Decoded[1], Decoded[2]>>
  /\ arrays.uniqueFrames = <<Decoded[2], Decoded[1]>>

\* C25: Sender playback invariant. After any sequence of generateQRCode,
\* startPlayback, pausePlayback, stopPlayback and clearAll, isPlaying is true
\* only if frames is non-empty.
PlayingHasFrames == sender.isPlaying => sender.frames # <<>>

\* startPlayback with no frames leaves isPlaying false, and generateQRCode
\* with empty or whitespace-only input leaves frames unchanged
NoFramesNoPlayback ==
  (StartPlayback /\ sender.frames = <<>>) => ~sender'.isPlaying
EmptyInputKeepsFrames ==
  (GenerateQRCode /\ trim(mockElements.textInput) = <<>>) => sender'.frames = sender.frames

C25_SenderPlaybackInvariant ==
  /\ []PlayingHasFrames
  /\ [][NoFramesNoPlayback /\ EmptyInputKeepsFrames]_vars

\* a frame was generated from padded input and is being played when
\* generateQRCode is called on whitespace-only input: the warning is shown
\* and the frame is still there
C25_Witness ==
  /\ sender.isPlaying
  /\ sender.frames = << <<"a">> >>
  /\ mockElements.textInput = <<" ", " ">>
  /\ mockElements.statusContainer = statusHTML(EnterText, "warning")
  /\ mockElements.progressText = FrameOf(1, 1)

\* the order the header of the loader promises: the local copy, then the
\* CDN URLs as listed
LocalThenCdns(resourceName) ==
  <<resources[resourceName].local>> \o resources[resourceName].cdns

SourcesAsked(load) == [k \in DOMAIN load.tried |-> load.tried[k].src]

\* the script of the source was loaded and the availability test succeeded
Passed(asked) == asked.outcome = "loaded" /\ asked.test

\* C26: Resource fallback order. A load asks the local copy first and then
\* the CDN URLs in their listed order, stops at the first source after whose
\* load the availability test succeeds, and fails with 'Failed to load
\* resource' only after the local copy and every CDN were tried without
\* success.
C26_ResourceFallbackOrder ==
  \A id \in DOMAIN loads :
    LET load == loads[id]
        n == Len(load.tried)
    IN /\ IsPrefix(SourcesAsked(load), LocalThenCdns(load.name))
       /\ \A k \in 1..(n - 1) : ~Passed(load.tried[k])
       /\ (load.state = "pending") => (n > 0 /\ load.tried[n].outcome = "awaiting")
       /\ (load.state = "fulfilled" /\ n > 0) => Passed(load.tried[n])
       /\ (load.state = "rejected") =>
            /\ SourcesAsked(load) = LocalThenCdns(load.name)
            /\ ~Passed(load.tried[n])
            /\ load.reason = FailedToLoad(load.name)

\* one load that gave up after all four sources, and one that went past an
\* error and a script that did not define the library and stopped at the
\* second CDN
C26_Witness ==
  /\ \E id \in DOMAIN loads :
       /\ loads[id].state = "rejected"
       /\ \E k \in DOMAIN loads[id].tried : loads[id].tried[k].outcome = "error"
  /\ \E id \in DOMAIN loads :
       /\ loads[id].state = "fulfilled"
       /\ Len(loads[id].tried) = 3
       /\ loads[id].tried[1].outcome = "error"
       /\ loads[id].tried[2].outcome = "loaded"

\* the loads of a name that are in flight
InFlight(resourceName) ==
  {id \in DOMAIN loads : loads[id].name = resourceName /\ loads[id].state = "pending"}

\* while a load of a name is in flight there is no second one
OneLoadInFlight == \A n \in DOMAIN resources : Cardinality(InFlight(n)) <= 1

\* a call for a name with a load in flight starts nothing and returns the
\* promise of that load
CallersShare ==
  \A n \in DOMAIN resources :
    (loadResource(n) /\ InFlight(n) # {}) =>
      /\ loads' = loads
      /\ called'.returned = "shared"
      /\ called'.load \in InFlight(n)

\* a name is in loadedResources only after a load of it succeeded
LoadedAfterSuccess ==
  \A n \in loadedResources :
    \E id \in DOMAIN loads : loads[id].name = n /\ loads[id].state = "fulfilled"

\* an entry of loadingPromises belongs to a load of that name whose
\* loadResource call has not passed its await
EntriesAwaited ==
  \A n \in DOMAIN loadingPromises :
    /\ loadingPromises[n] \in waiting
    /\ loads[loadingPromises[n]].name = n

\* after a failed load the entry of the name is removed
FailedLoadRemoved ==
  \A id \in DOMAIN loads :
    (afterAwait(id) /\ loads[id].state = "rejected") =>
      /\ loads[id].name \notin DOMAIN loadingPromises'
      /\ loads[id].name \notin loadedResources'

\* and a call that comes later starts a new load
LaterCallStartsLoad ==
  \A n \in DOMAIN resources :
    (loadResource(n) /\ n \notin DOMAIN loadingPromises /\ n \notin loadedResources) =>
      /\ Len(loads') = Len(loads) + 1
      /\ loads'[Len(loads')].name = n
      /\ loadingPromises'[n] = Len(loads')

\* C27: Resource load de-duplication. For any interleaving of loadResource
\* calls: while a load of a name is in flight no second load of the name is
\* started and the callers share the load in flight; a name is in
\* loadedResources only after a load of it succeeded; after a failed load
\* the in-flight entry is removed, so that a later call starts a new load.
C27_LoadDeduplication ==
  /\ [](OneLoadInFlight /\ LoadedAfterSuccess /\ EntriesAwaited)
  /\ [][CallersShare /\ FailedLoadRemoved /\ LaterCallStartsLoad]_vars

\* a first load of the library failed and its entry was removed; a second
\* load of it was started and is in flight, and another caller was given it
C27_Witness ==
  /\ Len(loads) = 2
  /\ loads[1].name = "jsQR"
  /\ loads[1].state = "rejected"
  /\ loads[2].name = "jsQR"
  /\ loads[2].state = "pending"
  /\ called = [name |-> "jsQR", returned |-> "shared", load |-> 2]
  /\ waiting = {2}

\* the pending timers that will clear lastScannedData
RescanTimers == {k \in DOMAIN timers : timers[k].callback = "clearLastScannedData"}

\* Timers of one delay fire in the order in which they were started, so the
\* timer of the latest processing has fired exactly when no timer that
\* clears lastScannedData is pending.  receivedData holds the payload of the
\* latest processing since the last resetSession.
ProcessedAgainAfterItsTimer ==
  \A X \in ScanPayloads, now \in clock..MaxClock :
    (processQRCode(X, now) /\ ~lastCall'.ignored /\ receivedData = X) =>
      RescanTimers = {}

\* the timer that clears lastScannedData while a payload is held is the
\* timer of the processing that set it: no younger one is left pending
ClearedByOwnTimer ==
  (ClearLastScannedData /\ lastScannedData # Null) =>
    {k \in DOMAIN timers' : timers'[k].callback = "clearLastScannedData"} = {}

\* C28: Scan debounce under interleaving. If a payload X is processed twice
\* by processQRCode with no other payload processed in between, the timer
\* started by the first of the two processings has fired, or resetSession
\* was called, before the second; a timer started by the processing of an
\* earlier payload never re-enables X.
C28_ScanDebounce ==
  [][ProcessedAgainAfterItsTimer /\ ClearedByOwnTimer]_vars

\* two payloads were processed one after the other; the timer of the first
\* has fired and lastScannedData is empty while the timer of the second is
\* still pending
ReenabledByEarlierTimer ==
  /\ scanCount = 2
  /\ lastScannedData = Null
  /\ receivedData = TwoFrames[2].raw
  /\ Cardinality(RescanTimers) = 1
  /\ lastCall.op # "resetSession"

\* C29: once stopCamera has returned and no startCamera is under way, no
\* interval that startScanning created is still active and scanInterval is
\* null, so that no scan is processed until the camera is started again
CameraStopped == cameraCall = "stopCamera" /\ stream = Null /\ mediaDevices.pending = 0

NoActiveInterval == \A id \in DOMAIN intervals : ~intervals[id]

StoppedCameraIsQuiet == CameraStopped => scanInterval = Null /\ NoActiveInterval

NoScanWhileStopped == CameraStopped /\ CameraStopped' => scanCount' = scanCount

C29_CameraStopCleansUp == []StoppedCameraIsQuiet /\ [][NoScanWhileStopped]_vars

\* what stopCamera does clean up: the field scanInterval, and the one
\* interval it named
ScanIntervalCleared == CameraStopped => scanInterval = Null

\* a scan is processed while the camera is stopped
ScannedWhileStopped == CameraStopped /\ CameraStopped' /\ scanCount' # scanCount

NeverScannedWhileStopped == [][~ScannedWhileStopped]_vars

\* C30: two texts of equal length that differ in exactly one character
\* have different checksums, so a transmission in which one character of a
\* payload was altered and the checksum was left alone is parsed with
\* integrity.valid = false
DiffersInOneCharacter(s, t) ==
  /\ Len(s) = Len(t)
  /\ Cardinality({k \in DOMAIN s : s[k] # t[k]}) = 1

OneCharacterAltered ==
  /\ pc = "parsed"
  /\ DOMAIN result = {"data", "metadata", "integrity"}
  /\ DiffersInOneCharacter(text, result.data)

C30_SingleCharacterCorruptionDetected ==
  OneCharacterAltered =>
    /\ calculateChecksum(text) # calculateChecksum(result.data)
    /\ result.integrity.valid = FALSE

\* the 32-bit hashes of the two texts do differ: the checksums are equal
\* only where Math.abs maps a hash and its negative to one value
HashesDiffer ==
  OneCharacterAltered => hashLoop(text, 0, Int32Zero) # hashLoop(result.data, 0, Int32Zero)

ChecksumsEqualOnlyByAbs ==
  OneCharacterAltered /\ result.integrity.valid =>
    MathAbs(hashLoop(text, 0, Int32Zero)) = MathAbs(hashLoop(result.data, 0, Int32Zero))

\* a text too short for the hash to wrap: the alteration is always detected
ShortTextCorruptionDetected ==
  OneCharacterAltered /\ Len(text) <= MaxCorruptLen => result.integrity.valid = FALSE
====
